---- MODULE Spec2Model ----
(***************************************************************************)
(* FastMart analytics core: the profit calculator (ProfitCalculator), the  *)
(* discount code aggregation (resolve_discount_code_analytics) and the     *)
(* daily rollup (DailySalesAnalyticsService) over the orders, ad spend,    *)
(* other cost and daily_sales_analytics tables.                            *)
(*                                                                         *)
(* Money is an integer number of 1/100000 currency units, so that a        *)
(* Numeric(12,2) amount, 2.9% of it and an integer percentage of it are    *)
(* all exact, as they are in Python's Decimal.  Timestamps are integer     *)
(* ticks, TicksPerDay to a calendar day.                                   *)
(***************************************************************************)
EXTENDS Integers, Sequences, FiniteSets, TLC

VARIABLES
    orders,        \* the orders table: a set of order records, unique id
    ad_spends,     \* the ad_spends table
    other_costs,   \* the other_costs table
    fee_rules,     \* the transaction_fee_rules table
    rows,          \* the daily_sales_analytics table: row records, unique id
    tasks,         \* per worker: the position and locals of its running call
    started,       \* the calls of the rollup entry points made so far
    last_commit,   \* the worker whose commit was the last to succeed
    call,          \* the last query-style call: its arguments
    result,        \* what calculate_net_profit returned or raised
    codes,         \* what resolve_discount_code_analytics returned or raised
    margins,       \* the margin fields resolved on the returned profit metrics
    ltv,           \* what resolve_customer_ltv returned or raised
    analytics,     \* what get_daily_analytics returned or raised
    pnl,           \* what resolve_profit_and_loss_report returned or raised
    ENCRYPTION_KEY,\* the environment variable that get_encryption_key reads
    issued,        \* the ciphertexts encrypt_token has returned, with the
                   \* token and the key of each
    crypto         \* the last call of encrypt_token or decrypt_token

vars == <<orders, ad_spends, other_costs, fee_rules, rows, tasks, started, last_commit, call,
          result, codes, margins, ltv, analytics, pnl, ENCRYPTION_KEY, issued, crypto>>

----------------------------------------------------------------------------
(* Bounds of the model *)

MaxDay == 1          \* calendar days 0..MaxDay
TicksPerDay == 2     \* timestamps per calendar day
MaxOrders == 2       \* orders in the table
MaxCalls == 3        \* calls of the rollup entry points, all workers together

(* Scales *)

Cent == 1000                 \* a Numeric(.., 2) step, in money units
Unit == 100 * Cent           \* one currency unit
NULL == -1                   \* SQL NULL / None of a nullable number or time

Days == 0..MaxDay
Times == 0..((MaxDay + 1) * TicksPerDay - 1)

\* datetime.date()
DateOf(t) == t \div TicksPerDay
\* datetime.combine(d, datetime.min.time())
DayStart(d) == d * TicksPerDay
\* datetime.combine(d, datetime.max.time())
DayEnd(d) == d * TicksPerDay + (TicksPerDay - 1)

StoreIds == {"s1", "s2"}
CustomerIds == {"c1", "c2"}
\* a parse that takes any string for a UUID
IsAnyString(s) == TRUE
\* UUID(..) succeeds: the identifiers of the model that are UUIDs
IsUUID(s) == s \in StoreIds \cup CustomerIds

----------------------------------------------------------------------------
(* Sums *)

RECURSIVE Sum(_)
\* the sum of the values of a function with a finite domain
Sum(f) ==
    IF DOMAIN f = {} THEN 0
    ELSE LET i == CHOOSE x \in DOMAIN f : TRUE
         IN  f[i] + Sum([j \in DOMAIN f \ {i} |-> f[j]])

\* x rounded to a multiple of Cent, half away from zero: what a
\* Numeric(10, 2) column keeps of a value written to it
Quantize(x) ==
    IF x >= 0 THEN ((2 * x + Cent) \div (2 * Cent)) * Cent
    ELSE 0 - (((2 * (0 - x) + Cent) \div (2 * Cent)) * Cent)

----------------------------------------------------------------------------
(* Discount entries: the elements of Order.discount_applications (JSONB) *)

ABSENT == "<absent>"     \* the key is not in the mapping
JNULL == "<null>"        \* the key is there with value None

\* field values of amount / value / percentage
Absent == [t |-> "absent", n |-> 0]
Num(n) == [t |-> "num", n |-> n]          \* a number or a numeric string
BadStr == [t |-> "str", n |-> 0]          \* a non-numeric string
NoneVal == [t |-> "none", n |-> 0]        \* None

Has(v) == v.t # "absent"                  \* 'key' in discount

\* a mapping entry
Entry(code, type, title, amount, value, percentage, value_type) ==
    [kind |-> "map", code |-> code, type |-> type, title |-> title,
     amount |-> amount, value |-> value, percentage |-> percentage,
     value_type |-> value_type]

\* an entry that is not a mapping: a JSON string, number or null
NonMapping(k) ==
    [kind |-> k, code |-> ABSENT, type |-> ABSENT, title |-> ABSENT,
     amount |-> Absent, value |-> Absent, percentage |-> Absent,
     value_type |-> ABSENT]

Ok(v) == [exc |-> "none", val |-> v]
Raise(e) == [exc |-> e, val |-> 0]

\* Decimal(str(v)): decimal.InvalidOperation (an ArithmeticError) for anything
\* that is not a number
DecimalOf(v) == IF v.t = "num" THEN Ok(v.n) ELSE Raise("InvalidOperation")

\* a literal amount, in money units
Literal(d) == IF d.exc = "none" THEN Ok(d.val * Unit) ELSE d
\* order.total_price * (Decimal(..) / Decimal('100'))
PercentOf(d, total_price) ==
    IF d.exc = "none" THEN Ok((total_price * d.val) \div 100) ELSE d

\* a try block that looks at value before amount
TryAmountValueFirst(discount, total_price) ==
    IF discount.kind \in {"num", "null"} THEN Raise("TypeError")
    ELSE IF discount.kind = "str" THEN Ok(0)
    ELSE IF Has(discount.value) THEN Literal(DecimalOf(discount.value))
    ELSE IF Has(discount.amount) THEN Literal(DecimalOf(discount.amount))
    ELSE IF Has(discount.percentage)
         THEN PercentOf(DecimalOf(discount.percentage), total_price)
    ELSE Ok(0)

\* the body of the try block that both passes share
TryAmount(discount, total_price) ==
    IF discount.kind \in {"num", "null"} THEN Raise("TypeError")
    ELSE IF discount.kind = "str" THEN Ok(0)
    ELSE IF Has(discount.amount) THEN Literal(DecimalOf(discount.amount))
    ELSE IF Has(discount.value) THEN Literal(DecimalOf(discount.value))
    ELSE IF Has(discount.percentage)
         THEN PercentOf(DecimalOf(discount.percentage), total_price)
    ELSE IF discount.value_type # ABSENT /\ discount.value_type = "percentage"
            /\ Has(discount.value)
         THEN PercentOf(DecimalOf(discount.value), total_price)
    ELSE Ok(0)

\* try/except around it: the classes in `caught` give amount 0
Caught(r, caught) == IF r.exc \in caught THEN Ok(0) ELSE r

CalculatorCaught == {"ValueError", "TypeError"}
ResolverCaught == {"ValueError", "TypeError", "InvalidOperation"}

\* the discount amount of one entry in _calculate_total_discounts
CalculatorAmount(discount, total_price) ==
    Caught(TryAmount(discount, total_price), CalculatorCaught)

\* running total plus a further amount, an exception ending the loop
Plus(acc, r) ==
    IF acc.exc # "none" THEN acc
    ELSE IF r.exc # "none" THEN r
    ELSE Ok(acc.val + r.val)

RECURSIVE DiscountsOfList(_, _, _)
\* the inner loop over one order's entries, from entry i on
DiscountsOfList(entries, i, total_price) ==
    IF i > Len(entries) THEN Ok(0)
    ELSE Plus(CalculatorAmount(entries[i], total_price),
              DiscountsOfList(entries, i + 1, total_price))

\* the discount_applications column: SQL NULL, a JSON list, or other JSON
NoDiscounts == [json |-> "null", entries |-> <<>>]
DiscountList(es) == [json |-> "list", entries |-> es]

\* Order.processed_at >= start_date AND Order.processed_at <= end_date
\* (a NULL processed_at satisfies no comparison)
InRange(o, store, start_date, end_date) ==
    /\ o.store = store
    /\ o.processed_at # NULL
    /\ o.processed_at >= start_date
    /\ o.processed_at <= end_date

OrdersInRange(O, store, start_date, end_date) ==
    {o \in O : InRange(o, store, start_date, end_date)}

RECURSIVE DiscountsOfOrders(_)
DiscountsOfOrders(S) ==
    IF S = {} THEN Ok(0)
    ELSE LET o == CHOOSE x \in S : TRUE
         IN  Plus(IF o.discount_applications.json # "list"
                     \/ Len(o.discount_applications.entries) = 0
                  THEN Ok(0)
                  ELSE DiscountsOfList(o.discount_applications.entries, 1,
                                       o.total_price),
                  DiscountsOfOrders(S \ {o}))

_calculate_total_discounts(O, store, start_date, end_date) ==
    DiscountsOfOrders({o \in OrdersInRange(O, store, start_date, end_date) :
                          o.discount_applications.json # "null"})

----------------------------------------------------------------------------
(* Cost source readers *)

\* SUM(quantity * COALESCE(cost_of_goods_sold, 0)) of one order's line items;
\* cogs is NULL for an item without a matching variant
ItemsCogs(items) ==
    Sum([i \in DOMAIN items |->
            items[i].quantity * (IF items[i].cogs = NULL THEN 0
                                 ELSE items[i].cogs)])

_calculate_total_cogs(O, store, start_date, end_date) ==
    LET S == OrdersInRange(O, store, start_date, end_date)
    IN  Sum([o \in S |-> ItemsCogs(o.line_items)])

_calculate_shipping_costs(O, store, start_date, end_date) ==
    LET S == OrdersInRange(O, store, start_date, end_date)
    IN  Sum([o \in S |-> IF o.actual_shipping_cost = NULL THEN 0
                         ELSE o.actual_shipping_cost])

transaction_fee_rate == 29          \* Decimal('0.029'), in thousandths
transaction_fee_fixed == 30 * Cent  \* Decimal('0.30')

\* fees that take the percentage (in thousandths) and the fixed fee of the
\* store's rule when the store has one
FeesByStoreRule(O, store, start_date, end_date) ==
    LET S == OrdersInRange(O, store, start_date, end_date)
        total_revenue == Sum([o \in S |-> o.total_price])
        order_count == Cardinality(S)
        own == {r \in fee_rules : r.store = store}
    IN  IF own = {}
        THEN (total_revenue * transaction_fee_rate) \div 1000
             + transaction_fee_fixed * order_count
        ELSE LET r == CHOOSE x \in own : TRUE
             IN  (total_revenue * r.percentage) \div 1000
                 + r.fixed_fee * order_count

\* fees that charge the fixed part once, whatever the number of orders
FeesWithFlatFixedPart(O, store, start_date, end_date) ==
    LET S == OrdersInRange(O, store, start_date, end_date)
        total_revenue == Sum([o \in S |-> o.total_price])
    IN  (total_revenue * transaction_fee_rate) \div 1000 + transaction_fee_fixed

_calculate_transaction_fees(O, store, start_date, end_date) ==
    LET S == OrdersInRange(O, store, start_date, end_date)
        total_revenue == Sum([o \in S |-> o.total_price])
        order_count == Cardinality(S)
    IN  (total_revenue * transaction_fee_rate) \div 1000
        + transaction_fee_fixed * order_count

_calculate_ad_spend(A, store, start_date, end_date) ==
    LET S == {a \in A : /\ a.store = store
                        /\ a.date >= DateOf(start_date)
                        /\ a.date <= DateOf(end_date)}
    IN  Sum([a \in S |-> a.spend])

\* other costs that count a recurring cost whatever its end_date
OtherCostsIgnoringEndDate(C, store, start_date, end_date) ==
    LET one_time == {c \in C : /\ c.store = store
                               /\ c.frequency = "one_time"
                               /\ c.start_date >= DateOf(start_date)
                               /\ c.start_date <= DateOf(end_date)}
        recurring == {c \in C : /\ c.store = store
                                /\ c.frequency # "one_time"
                                /\ c.start_date <= DateOf(end_date)}
    IN  Sum([c \in one_time |-> c.amount]) + Sum([c \in recurring |-> c.amount])

_calculate_other_costs(C, store, start_date, end_date) ==
    LET one_time == {c \in C : /\ c.store = store
                               /\ c.frequency = "one_time"
                               /\ c.start_date >= DateOf(start_date)
                               /\ c.start_date <= DateOf(end_date)}
        recurring == {c \in C : /\ c.store = store
                                /\ c.frequency # "one_time"
                                /\ c.start_date <= DateOf(end_date)
                                /\ \/ c.end_date = NULL
                                   \/ c.end_date >= DateOf(start_date)}
    IN  Sum([c \in one_time |-> c.amount]) + Sum([c \in recurring |-> c.amount])

----------------------------------------------------------------------------
(* ProfitCalculator.calculate_net_profit *)

\* SUM(total_price) or Decimal('0'), and the discount total
_fetch_orders(O, store, start_date, end_date) ==
    [gross_revenue |->
         Sum([o \in OrdersInRange(O, store, start_date, end_date) |->
                 o.total_price]),
     total_discounts |-> _calculate_total_discounts(O, store, start_date, end_date)]

\* the call raised e and returned nothing
Raised(e) ==
    [exc |-> e, gross_revenue |-> 0, net_revenue |-> 0, gross_profit |-> 0,
     net_profit |-> 0, total_cogs |-> 0, total_shipping_cost |-> 0,
     total_transaction_fees |-> 0, total_ad_spend |-> 0,
     total_other_costs |-> 0, total_refunds |-> 0, total_discounts |-> 0]

\* the layers of the waterfall
NetRevenue(gross_revenue, total_refunds, total_discounts) ==
    gross_revenue - total_refunds - total_discounts

GrossProfit(net_revenue, total_cogs) == net_revenue - total_cogs

\* a net profit that leaves the other costs out
NetProfitWithoutOtherCosts(gross_profit, total_shipping_cost, total_transaction_fees, total_ad_spend, total_other_costs) ==
    gross_profit - total_shipping_cost - total_transaction_fees - total_ad_spend

NetProfit(gross_profit, total_shipping_cost, total_transaction_fees, total_ad_spend, total_other_costs) ==
    gross_profit - total_shipping_cost - total_transaction_fees
    - total_ad_spend - total_other_costs

CalculateNetProfit(O, A, C, store_id, start_date, end_date) ==
    IF ~IsUUID(store_id) THEN Raised("ValueError")
    \* Order.processed_at >= None: a column is compared with None only by
    \* = and !=, anything else is an ArgumentError when the query is built
    ELSE IF start_date = NULL \/ end_date = NULL THEN Raised("ArgumentError")
    ELSE
    LET orders_data == _fetch_orders(O, store_id, start_date, end_date)
    IN  IF orders_data.total_discounts.exc # "none"
        THEN Raised(orders_data.total_discounts.exc)
        ELSE
        LET gross_revenue == orders_data.gross_revenue
            total_refunds == 0
            total_discounts == orders_data.total_discounts.val
            net_revenue == NetRevenue(gross_revenue, total_refunds, total_discounts)
            total_cogs == _calculate_total_cogs(O, store_id, start_date, end_date)
            gross_profit == GrossProfit(net_revenue, total_cogs)
            total_shipping_cost ==
                _calculate_shipping_costs(O, store_id, start_date, end_date)
            total_transaction_fees ==
                _calculate_transaction_fees(O, store_id, start_date, end_date)
            total_ad_spend == _calculate_ad_spend(A, store_id, start_date, end_date)
            total_other_costs ==
                _calculate_other_costs(C, store_id, start_date, end_date)
            net_profit == NetProfit(gross_profit, total_shipping_cost,
                                    total_transaction_fees, total_ad_spend,
                                    total_other_costs)
        IN  [exc |-> "none",
             gross_revenue |-> gross_revenue,
             net_revenue |-> net_revenue,
             gross_profit |-> gross_profit,
             net_profit |-> net_profit,
             total_cogs |-> total_cogs,
             total_shipping_cost |-> total_shipping_cost,
             total_transaction_fees |-> total_transaction_fees,
             total_ad_spend |-> total_ad_spend,
             total_other_costs |-> total_other_costs,
             total_refunds |-> total_refunds,
             total_discounts |-> total_discounts]

\* the call against the current tables
calculate_net_profit(store_id, start_date, end_date) ==
    CalculateNetProfit(orders, ad_spends, other_costs, store_id, start_date,
                       end_date)

----------------------------------------------------------------------------
(* resolve_discount_code_analytics *)

\* f"{x}" of a title: None prints as "None"
Str(s) == IF s = JNULL THEN "None" ELSE s
\* a value that `not x` / `x is None or x == ''` takes as empty
Falsy(s) == s \in {ABSENT, JNULL, ""}
\* str.upper() on the discount types of the model
Upper(t) ==
    CASE t = "manual" -> "MANUAL"
      [] t = "automatic" -> "AUTOMATIC"
      [] t = "script" -> "SCRIPT"
      [] t = "discount_code" -> "DISCOUNT_CODE"
      [] OTHER -> t

Coded(c) == [exc |-> "none", skip |-> FALSE, code |-> c]
Dropped == [exc |-> "none", skip |-> TRUE, code |-> ""]
CodeRaise(e) == [exc |-> e, skip |-> FALSE, code |-> ""]

\* a synthesis that spells the automatic prefix out
CodeOfAutomaticSpelledOut(discount) ==
    IF discount.kind # "map" THEN CodeRaise("AttributeError")
    ELSE IF ~Falsy(discount.code) THEN Coded(discount.code)
    ELSE IF discount.type = "manual" /\ discount.title # ABSENT
         THEN Coded("MANUAL: " \o Str(discount.title))
    ELSE IF discount.type = "automatic" /\ discount.title # ABSENT
         THEN Coded("AUTOMATIC: " \o Str(discount.title))
    ELSE IF discount.title # ABSENT /\ ~Falsy(discount.title)
         THEN Coded((IF Falsy(discount.type) THEN "DISCOUNT"
                     ELSE Upper(discount.type)) \o ": " \o discount.title)
    ELSE Dropped

\* the code of an entry, `continue` for an entry without one; discount.get
\* is an AttributeError on an entry that is not a mapping
CodeOf(discount) ==
    IF discount.kind # "map" THEN CodeRaise("AttributeError")
    ELSE IF ~Falsy(discount.code) THEN Coded(discount.code)
    ELSE IF discount.type = "manual" /\ discount.title # ABSENT
         THEN Coded("MANUAL: " \o Str(discount.title))
    ELSE IF discount.type = "automatic" /\ discount.title # ABSENT
         THEN Coded("AUTO: " \o Str(discount.title))
    ELSE IF discount.title # ABSENT /\ ~Falsy(discount.title)
         THEN Coded((IF Falsy(discount.type) THEN "DISCOUNT"
                     ELSE Upper(discount.type)) \o ": " \o discount.title)
    ELSE Dropped

\* the discount amount of one entry in the resolver
ResolverAmount(discount, total_price) ==
    Caught(TryAmount(discount, total_price), ResolverCaught)

NoStats ==
    [usage_count |-> 0, total_discount_amount |-> 0, total_sales_generated |-> 0]

\* an update that counts the order's total_price once per code only
AccumulateSalesOncePerCode(m, code, discount_amount, total_price) ==
    LET old == IF code \in DOMAIN m THEN m[code] ELSE NoStats
        new == [usage_count |-> old.usage_count + 1,
                total_discount_amount |->
                    old.total_discount_amount + discount_amount,
                total_sales_generated |->
                    IF code \in DOMAIN m THEN old.total_sales_generated
                    ELSE total_price]
    IN  [c \in DOMAIN m \cup {code} |-> IF c = code THEN new ELSE m[c]]

\* discount_code_map[code] updated for one entry
Accumulate(m, code, discount_amount, total_price) ==
    LET old == IF code \in DOMAIN m THEN m[code] ELSE NoStats
        new == [usage_count |-> old.usage_count + 1,
                total_discount_amount |->
                    old.total_discount_amount + discount_amount,
                total_sales_generated |->
                    old.total_sales_generated + total_price]
    IN  [c \in DOMAIN m \cup {code} |-> IF c = code THEN new ELSE m[c]]

EmptyMap == [c \in {} |-> NoStats]

RECURSIVE CodesOfList(_, _, _, _)
\* the inner loop over one order's entries, from entry i on; acc is the map
\* so far, or the exception that ended the loop
CodesOfList(entries, i, total_price, acc) ==
    IF acc.exc # "none" \/ i > Len(entries) THEN acc
    ELSE LET c == CodeOf(entries[i])
             a == ResolverAmount(entries[i], total_price)
         IN  CodesOfList(entries, i + 1, total_price,
                 IF c.exc # "none" THEN [exc |-> c.exc, map |-> EmptyMap]
                 ELSE IF c.skip THEN acc
                 ELSE IF a.exc # "none" THEN [exc |-> a.exc, map |-> EmptyMap]
                 ELSE [exc |-> "none",
                       map |-> Accumulate(acc.map, c.code, a.val, total_price)])

RECURSIVE CodesOfOrders(_, _)
CodesOfOrders(S, acc) ==
    IF S = {} THEN acc
    ELSE LET o == CHOOSE x \in S : TRUE
         IN  CodesOfOrders(S \ {o},
                 IF o.discount_applications.json # "list" THEN acc
                 ELSE CodesOfList(o.discount_applications.entries, 1,
                                  o.total_price, acc))

\* discount_code_map after the loop over the orders of the date range
DiscountCodeMap(O, store_id, start_date, end_date) ==
    IF ~IsUUID(store_id) THEN [exc |-> "ValueError", map |-> EmptyMap]
    ELSE CodesOfOrders(OrdersInRange(O, store_id, DayStart(start_date),
                                     DayEnd(end_date)),
                       [exc |-> "none", map |-> EmptyMap])

\* discount_codes.sort(usage_count, reverse) then [:limit]: K is a set of
\* codes the slice can hold (ties are in the order the query gave the rows)
IsTopSlice(m, K, limit) ==
    /\ K \subseteq DOMAIN m
    /\ Cardinality(K) = IF Cardinality(DOMAIN m) < limit
                        THEN Cardinality(DOMAIN m) ELSE limit
    /\ \A c \in K, d \in DOMAIN m \ K : m[c].usage_count >= m[d].usage_count

----------------------------------------------------------------------------
(* The tables *)

Order(id, store, total_price, processed_at, platform_created_at, cancelled, discount_applications, actual_shipping_cost, line_items) ==
    [id |-> id, store |-> store, total_price |-> total_price,
     processed_at |-> processed_at,
     platform_created_at |-> platform_created_at, cancelled |-> cancelled,
     discount_applications |-> discount_applications,
     actual_shipping_cost |-> actual_shipping_cost, line_items |-> line_items,
     customer |-> JNULL]

\* the order as one of a customer (Order.customer_id)
OfCustomer(o, customer_id) == [o EXCEPT !.customer = customer_id]

\* a shape is an order whose id is still to be given
WithId(shape, id) == [shape EXCEPT !.id = id]

AdSpend(store, date, spend) == [store |-> store, date |-> date, spend |-> spend]

OtherCost(store, frequency, amount, start_date, end_date) ==
    [store |-> store, frequency |-> frequency, amount |-> amount,
     start_date |-> start_date, end_date |-> end_date]

\* TransactionFeeRuleModel(store_id, platform, percentage, fixed_fee)
TransactionFeeRule(store, percentage, fixed_fee) ==
    [store |-> store, percentage |-> percentage, fixed_fee |-> fixed_fee]

LineItem(quantity, cogs) == [quantity |-> quantity, cogs |-> cogs]

AmountEntry(code, amount) ==
    Entry(code, "discount_code", ABSENT, amount, Absent, Absent, ABSENT)
PercentageEntry(code, percentage) ==
    Entry(code, "discount_code", ABSENT, Absent, Absent, percentage, ABSENT)
\* what the Shopify connector stores: value and value_type, no amount
ValueEntry(code, type, title, value, value_type) ==
    Entry(code, type, title, Absent, value, Absent, value_type)

\* the order tables with ids 1..n, each order of one of the shapes
Tables(shapes, n) ==
    {{WithId(f[i], i) : i \in 1..n} : f \in [1..n -> shapes]}

TablesUpTo(shapes, n) == UNION {Tables(shapes, k) : k \in 0..n}

\* the same for a sequence of shapes, one table for all the orders in which
\* its rows can be numbered
SortedTables(shapes, n) ==
    {{WithId(shapes[f[i]], i) : i \in 1..n} :
        f \in {g \in [1..n -> 1..Len(shapes)] :
                 \A i \in 1..n, j \in 1..n : i <= j => g[i] <= g[j]}}

SortedTablesUpTo(shapes, n) == UNION {SortedTables(shapes, k) : k \in 0..n}

----------------------------------------------------------------------------
(* Quotients of Decimals: a / b is held as the fraction in lowest terms     *)
(* (Decimal keeps its first 28 significant digits)                         *)

Abs(x) == IF x < 0 THEN 0 - x ELSE x

RECURSIVE GCD(_, _)
GCD(a, b) == IF b = 0 THEN a ELSE GCD(b, a % b)

Whole(n) == [exc |-> "none", num |-> n, den |-> 1]

\* a / b: decimal.DivisionByZero for b = 0 (InvalidOperation for 0 / 0)
Ratio(a, b) ==
    IF b = 0
    THEN [exc |-> IF a = 0 THEN "InvalidOperation" ELSE "DivisionByZero",
          num |-> 0, den |-> 1]
    ELSE LET g == GCD(Abs(a), Abs(b))
         IN  [exc |-> "none",
              num |-> (IF b < 0 THEN 0 - a ELSE a) \div g,
              den |-> Abs(b) \div g]

\* q * 100
Times100(q) ==
    LET g == GCD(100, q.den)
    IN  [q EXCEPT !.num = q.num * (100 \div g), !.den = q.den \div g]

\* a margin without the guard for net_revenue = 0
MarginUnguarded(part, net_revenue) == Times100(Ratio(part, net_revenue))

\* ProfitMetrics.profit_margin / gross_margin (and the same two fields of
\* NetProfitMetrics): part as a percentage of net_revenue
Margin(part, net_revenue) ==
    IF net_revenue = 0 THEN Whole(0)
    ELSE Times100(Ratio(part, net_revenue))

NoMargins == [profit_margin |-> Whole(0), gross_margin |-> Whole(0)]

----------------------------------------------------------------------------
(* resolve_customer_ltv (CustomerResolver.get_customer_ltv is the same code) *)

LtvRaised(e) ==
    [exc |-> e, total_orders |-> 0, total_revenue |-> 0, total_profit |-> 0,
     net_profit_ltv |-> 0, average_order_value |-> Whole(0),
     average_profit_per_order |-> Whole(0), first_order_date |-> NULL,
     last_order_date |-> NULL]

\* the metrics of a customer without orders, and the value before any call
NoLtv == LtvRaised("none")

\* ORDER BY processed_at: ascending, the NULLs last
SortKey(o) ==
    IF o.processed_at = NULL THEN (MaxDay + 1) * TicksPerDay ELSE o.processed_at

CustomerLtv(O, A, C, customer_id, store_id) ==
    IF ~IsUUID(customer_id) \/ ~IsUUID(store_id) THEN LtvRaised("ValueError")
    ELSE
    LET mine == {o \in O : o.store = store_id /\ o.customer = customer_id}
    IN  IF mine = {} THEN NoLtv
        ELSE
        LET total_orders == Cardinality(mine)
            total_revenue == Sum([o \in mine |-> o.total_price])
            \* one call of the calculator per order, start = end = processed_at
            profit_data == [o \in mine |->
                               CalculateNetProfit(O, A, C, store_id,
                                                  o.processed_at, o.processed_at)]
            failing == {o \in mine : profit_data[o].exc # "none"}
        IN  IF failing # {}
            THEN LtvRaised(profit_data[CHOOSE o \in failing :
                               \A x \in failing : SortKey(o) <= SortKey(x)].exc)
            ELSE
            LET total_profit == Sum([o \in mine |-> profit_data[o].net_profit])
                first == CHOOSE o \in mine : \A x \in mine : SortKey(o) <= SortKey(x)
                last == CHOOSE o \in mine : \A x \in mine : SortKey(x) <= SortKey(o)
            IN  [exc |-> "none",
                 total_orders |-> total_orders,
                 total_revenue |-> total_revenue,
                 total_profit |-> total_profit,
                 net_profit_ltv |-> total_profit,
                 average_order_value |-> Ratio(total_revenue, total_orders),
                 average_profit_per_order |-> Ratio(total_profit, total_orders),
                 first_order_date |-> DateOf(first.processed_at),
                 last_order_date |-> DateOf(last.processed_at)]

----------------------------------------------------------------------------
(* resolve_profit_and_loss_report: the items of the P&L report *)

PnlReportItem(category, amount, percentage) ==
    [category |-> category, amount |-> amount, percentage |-> percentage]

PnlRaised(e) ==
    [exc |-> e,
     revenue |-> PnlReportItem("Revenue", 0, Whole(0)),
     cogs |-> PnlReportItem("Cost of Goods Sold", 0, Whole(0)),
     gross_profit |-> PnlReportItem("Gross Profit", 0, Whole(0)),
     expenses |-> <<>>,
     net_profit |-> PnlReportItem("Net Profit", 0, Whole(0))]

\* the value before any call
NoPnl == PnlRaised("none")

\* the report built from the dictionary of calculate_net_profit
PnlReport(profit_data) ==
    IF profit_data.exc # "none" THEN PnlRaised(profit_data.exc)
    ELSE
    LET net_revenue == profit_data.net_revenue
        \* net_revenue if net_revenue > 0 else 1
        percentage_base == IF net_revenue > 0 THEN net_revenue ELSE Unit
        Percentage(amount) == Times100(Ratio(amount, percentage_base))
        Item(category, amount) ==
            PnlReportItem(category, amount, Percentage(amount))
    IN  [exc |-> "none",
         revenue |-> PnlReportItem("Revenue", net_revenue, Whole(100)),
         cogs |-> Item("Cost of Goods Sold", profit_data.total_cogs),
         gross_profit |-> Item("Gross Profit", profit_data.gross_profit),
         expenses |->
            <<Item("Shipping Costs", profit_data.total_shipping_cost),
              Item("Transaction Fees", profit_data.total_transaction_fees),
              Item("Advertising", profit_data.total_ad_spend),
              Item("Other Costs", profit_data.total_other_costs)>>,
         net_profit |-> Item("Net Profit", profit_data.net_profit)]

----------------------------------------------------------------------------
(* app.core.security: encrypt_token and decrypt_token                       *)
(* A str is the sequence of its code points, bytes the sequence of their    *)
(* values.                                                                  *)

PyStr(chars) == [type |-> "str", chars |-> chars]
None == [type |-> "NoneType", chars |-> <<>>]

\* not x, for a str or None
NotValue(x) == x = None \/ x.chars = <<>>

IsSurrogate(c) == c \in 55296..57343

\* the UTF-8 bytes of one code point
UTF8(c) ==
    IF c < 128 THEN <<c>>
    ELSE IF c < 2048 THEN <<192 + c \div 64, 128 + (c % 64)>>
    ELSE IF c < 65536
    THEN <<224 + c \div 4096, 128 + ((c \div 64) % 64), 128 + (c % 64)>>
    ELSE <<240 + c \div 262144, 128 + ((c \div 4096) % 64),
           128 + ((c \div 64) % 64), 128 + (c % 64)>>

RECURSIVE Concat(_)
Concat(ss) == IF ss = <<>> THEN <<>> ELSE Head(ss) \o Concat(Tail(ss))

\* str.encode(): UnicodeEncodeError for a lone surrogate
str_encode(chars) ==
    IF \E i \in 1..Len(chars) : IsSurrogate(chars[i])
    THEN [exc |-> "UnicodeEncodeError", bytes |-> <<>>]
    ELSE [exc |-> "none",
          bytes |-> Concat([i \in 1..Len(chars) |-> UTF8(chars[i])])]

\* bytes.decode(): UnicodeDecodeError for bytes that are no UTF-8
RECURSIVE bytes_decode(_)
bytes_decode(b) ==
    IF b = <<>> THEN [exc |-> "none", chars |-> <<>>]
    ELSE
    LET n == IF b[1] < 128 THEN 1
             ELSE IF b[1] \in 194..223 THEN 2
             ELSE IF b[1] \in 224..239 THEN 3
             ELSE IF b[1] \in 240..244 THEN 4
             ELSE 0
        shaped == n > 0 /\ Len(b) >= n /\ \A i \in 2..n : b[i] \in 128..191
        c == IF n = 1 THEN b[1]
             ELSE IF n = 2 THEN (b[1] - 192) * 64 + (b[2] - 128)
             ELSE IF n = 3
             THEN (b[1] - 224) * 4096 + (b[2] - 128) * 64 + (b[3] - 128)
             ELSE (b[1] - 240) * 262144 + (b[2] - 128) * 4096
                  + (b[3] - 128) * 64 + (b[4] - 128)
        shortest == \/ n <= 2
                    \/ n = 3 /\ c >= 2048 /\ ~IsSurrogate(c)
                    \/ n = 4 /\ c >= 65536 /\ c <= 1114111
        rest == bytes_decode(SubSeq(b, n + 1, Len(b)))
    IN  IF ~shaped \/ ~shortest \/ rest.exc # "none"
        THEN [exc |-> "UnicodeDecodeError", chars |-> <<>>]
        ELSE [exc |-> "none", chars |-> <<c>> \o rest.chars]

\* the URL-safe base64 alphabet: A-Z a-z 0-9 - _ and the padding =
B64Char(v) ==
    IF v < 26 THEN 65 + v
    ELSE IF v < 52 THEN 97 + (v - 26)
    ELSE IF v < 62 THEN 48 + (v - 52)
    ELSE IF v = 62 THEN 45 ELSE 95

\* the value of a character; the decoder takes + and / as well as - and _
B64Value(c) ==
    IF c \in 65..90 THEN c - 65
    ELSE IF c \in 97..122 THEN c - 71
    ELSE IF c \in 48..57 THEN c + 4
    ELSE IF c \in {45, 43} THEN 62
    ELSE IF c \in {95, 47} THEN 63
    ELSE 0 - 1

Pad == 61

RECURSIVE urlsafe_b64encode(_)
urlsafe_b64encode(b) ==
    IF b = <<>> THEN <<>>
    ELSE IF Len(b) = 1
    THEN <<B64Char(b[1] \div 4), B64Char((b[1] % 4) * 16), Pad, Pad>>
    ELSE IF Len(b) = 2
    THEN <<B64Char(b[1] \div 4), B64Char((b[1] % 4) * 16 + b[2] \div 16),
           B64Char((b[2] % 16) * 4), Pad>>
    ELSE <<B64Char(b[1] \div 4), B64Char((b[1] % 4) * 16 + b[2] \div 16),
           B64Char((b[2] % 16) * 4 + b[3] \div 64), B64Char(b[3] % 64)>>
         \o urlsafe_b64encode(SubSeq(b, 4, Len(b)))

\* binascii.a2b_base64 without strict mode: characters outside the alphabet
\* are skipped, padding that completes a group of four ends the data, and
\* an incomplete group at the end is a binascii.Error
RECURSIVE a2b_base64(_, _, _, _, _)
a2b_base64(s, quad_pos, leftchar, pads, out) ==
    IF s = <<>>
    THEN IF quad_pos # 0 THEN [exc |-> "binascii.Error", bytes |-> <<>>]
         ELSE [exc |-> "none", bytes |-> out]
    ELSE
    LET c == Head(s)
        v == B64Value(c)
    IN  IF c = Pad
        THEN IF quad_pos >= 2 /\ quad_pos + pads + 1 >= 4
             THEN [exc |-> "none", bytes |-> out]
             ELSE a2b_base64(Tail(s), quad_pos, leftchar,
                             IF quad_pos >= 2 THEN pads + 1 ELSE pads, out)
        ELSE IF v < 0 THEN a2b_base64(Tail(s), quad_pos, leftchar, pads, out)
        ELSE IF quad_pos = 0 THEN a2b_base64(Tail(s), 1, v, 0, out)
        ELSE IF quad_pos = 1
        THEN a2b_base64(Tail(s), 2, v % 16, 0,
                        Append(out, leftchar * 4 + v \div 16))
        ELSE IF quad_pos = 2
        THEN a2b_base64(Tail(s), 3, v % 4, 0,
                        Append(out, leftchar * 16 + v \div 4))
        ELSE a2b_base64(Tail(s), 0, 0, 0, Append(out, leftchar * 64 + v))

urlsafe_b64decode(s) == a2b_base64(s, 0, 0, 0, <<>>)

RECURSIVE SumBytes(_)
SumBytes(b) == IF b = <<>> THEN 0 ELSE Head(b) + SumBytes(Tail(b))

\* Fernet (the cryptography package): a token is the base64 text of
\* version || iv || ciphertext || signature.  AES-CBC and HMAC-SHA256 are
\* byte arithmetic here that keeps what the callers rely on: the ciphertext
\* is a bijection of the plaintext for a key and an iv, and the signature of
\* one key never verifies under another.  iv stands for the fields that are
\* fresh in every call, the timestamp and the random IV.
Version == 128
Keys == {1, 2}
NoKey == 0
DeployedKey == 1
IVs == {0, 1}

Cipher(key, iv, p) == (p + key + iv) % 256
Decipher(key, iv, c) == (c + 512 - key - iv) % 256
Signature(key, body) == (7 * key + SumBytes(body)) % 256

Fernet_encrypt(key, iv, data) ==
    LET body == <<Version, iv>>
                \o [i \in 1..Len(data) |-> Cipher(key, iv, data[i])]
    IN  urlsafe_b64encode(Append(body, Signature(key, body)))

\* InvalidToken for a text that is no base64, is too short, has another
\* version or a signature that does not verify
Fernet_decrypt(key, token) ==
    LET d == urlsafe_b64decode(token)
        n == Len(d.bytes)
    IN  IF \/ d.exc # "none"
           \/ n < 3
           \/ d.bytes[1] # Version
           \/ d.bytes[n] # Signature(key, SubSeq(d.bytes, 1, n - 1))
        THEN [exc |-> "InvalidToken", bytes |-> <<>>]
        ELSE [exc |-> "none",
              bytes |-> [i \in 1..(n - 3) |->
                            Decipher(key, d.bytes[2], d.bytes[i + 2])]]

Returns(value) == [exc |-> "none", ret |-> value]
Raises(e) == [exc |-> e, ret |-> None]

\* encrypt_token(token) under the key of the environment, with the fresh
\* fields iv
encrypt_token(token, key, iv) ==
    IF NotValue(token) THEN Returns(PyStr(<<>>))
    \* get_fernet(): get_encryption_key raises for a key that is not set
    ELSE IF key = NoKey THEN Raises("ValueError")
    ELSE
    LET data == str_encode(token.chars)
        encrypted_bytes == Fernet_encrypt(key, iv, data.bytes)
        text == bytes_decode(encrypted_bytes)
    IN  IF data.exc # "none" THEN Raises(data.exc)
        ELSE IF text.exc # "none" THEN Raises(text.exc)
        ELSE Returns(PyStr(text.chars))

\* a decrypt_token that returns str(decrypted_bytes), the text "b'...'", in
\* place of decrypted_bytes.decode()
decrypt_token_str_of_bytes(encrypted_token, key) ==
    IF NotValue(encrypted_token) THEN Returns(None)
    ELSE IF key = NoKey THEN Raises("ValueError")
    ELSE
    LET token_bytes == str_encode(encrypted_token.chars)
        decrypted_bytes == Fernet_decrypt(key, token_bytes.bytes)
    IN  IF token_bytes.exc # "none" THEN Raises("ValueError")
        ELSE IF decrypted_bytes.exc = "InvalidToken" THEN Returns(None)
        ELSE Returns(PyStr(<<98, 39>> \o decrypted_bytes.bytes \o <<39>>))

\* decrypt_token(encrypted_token): None for InvalidToken, ValueError for
\* any other exception
decrypt_token(encrypted_token, key) ==
    IF NotValue(encrypted_token) THEN Returns(None)
    ELSE IF key = NoKey THEN Raises("ValueError")
    ELSE
    LET token_bytes == str_encode(encrypted_token.chars)
        decrypted_bytes == Fernet_decrypt(key, token_bytes.bytes)
        text == bytes_decode(decrypted_bytes.bytes)
    IN  IF token_bytes.exc # "none" THEN Raises("ValueError")
        ELSE IF decrypted_bytes.exc = "InvalidToken" THEN Returns(None)
        ELSE IF text.exc # "none" THEN Raises("ValueError")
        ELSE Returns(PyStr(text.chars))

\* key: the ENCRYPTION_KEY at the time of the call
NoCrypto ==
    [op |-> "none", arg |-> None, key |-> NoKey, exc |-> "none", ret |-> None]

----------------------------------------------------------------------------
(* Workers: the callers of the rollup entry points *)

Workers == {"w1", "w2"}

\* visits counts, per date, the calls of process_daily_analytics that the
\* running process_all_store_analytics has made
IdleTask ==
    [pc |-> "idle", driver |-> FALSE, todo |-> {}, store |-> "", date |-> 0,
     existing |-> 0, total_sales |-> 0, total_orders |-> 0,
     average_order_value |-> 0, profit |-> 0, exc |-> "none",
     visits |-> [d \in Days |-> 0]]

NoCall ==
    [op |-> "none", store |-> "", customer |-> "", start |-> 0, end |-> 0,
     limit |-> 0]
NoCodes == [exc |-> "none", map |-> EmptyMap]

NoAnalytics == [exc |-> "none", rows |-> {}]

\* nothing has been called yet
Quiet ==
    /\ rows = {}
    /\ tasks = [w \in Workers |-> IdleTask]
    /\ started = 0
    /\ last_commit = "none"
    /\ call = NoCall
    /\ result = Raised("none")
    /\ codes = NoCodes
    /\ margins = NoMargins
    /\ ltv = NoLtv
    /\ analytics = NoAnalytics
    /\ pnl = NoPnl
    /\ ENCRYPTION_KEY = DeployedKey
    /\ issued = {}
    /\ crypto = NoCrypto

----------------------------------------------------------------------------
(* The query-style calls, over tables drawn from the shapes below *)

\* processed_at of the orders: none, the first and last instant of day 0,
\* the first instant of the last day
ProfitTimes == {NULL, DayStart(0), DayEnd(0), DayStart(MaxDay)}

DiscountColumns ==
    {DiscountList(<<>>),
     [json |-> "object", entries |-> <<>>],
     DiscountList(<<AmountEntry("SAVE5", Num(5))>>),
     DiscountList(<<PercentageEntry("", Num(10)),
                    ValueEntry(JNULL, "manual", "Black Friday", Num(5),
                               "percentage")>>),
     DiscountList(<<AmountEntry("SAVE5", BadStr)>>),
     DiscountList(<<ValueEntry(JNULL, "automatic", JNULL, NoneVal, JNULL)>>),
     DiscountList(<<NonMapping("num"), AmountEntry("SAVE5", Num(5))>>),
     DiscountList(<<NonMapping("str")>>),
     DiscountList(<<PercentageEntry(ABSENT, Num(10))>>),
     DiscountList(<<Entry("BOTH", "discount_code", ABSENT, Num(5), Num(7),
                          Num(10), "percentage"),
                    ValueEntry(JNULL, "script", "Bundle", Num(7),
                               "fixed_amount"),
                    ValueEntry(JNULL, "automatic", "Free Ship", Num(3),
                               "fixed_amount")>>)}

ProfitShapes ==
    {Order(0, s, 100 * Unit, t, 0, FALSE, NoDiscounts, NULL, <<>>) :
        s \in StoreIds, t \in ProfitTimes}
    \cup
    {Order(0, "s1", 200 * Unit, DayStart(0), 0, FALSE, d, 4 * Unit,
           <<LineItem(2, 3 * Unit), LineItem(1, NULL)>>) :
        d \in DiscountColumns}

\* the ad spend, other cost and fee rule tables go together, to keep the
\* tables few
CostScenarios ==
    {<<{}, {}, {}>>,
     <<{AdSpend("s1", 0, 10 * Unit)},
       {OtherCost("s1", "one_time", 5 * Unit, 0, NULL)},
       {TransactionFeeRule("s1", 50, 1 * Unit)}>>,
     <<{AdSpend("s1", 0, 10 * Unit), AdSpend("s1", MaxDay, 7 * Unit),
        AdSpend("s2", 0, 3 * Unit)},
       {OtherCost("s1", "monthly", 20 * Unit, 0, NULL),
        OtherCost("s1", "one_time", 5 * Unit, MaxDay, NULL),
        OtherCost("s1", "quarterly", 2 * Unit, 0, 0),
        OtherCost("s1", "yearly", 1 * Unit, MaxDay, NULL),
        OtherCost("s2", "yearly", 9 * Unit, 0, NULL)},
       {TransactionFeeRule("s1", 10, 0), TransactionFeeRule("s2", 50, 1 * Unit)}>>}

InitQuery ==
    /\ orders \in TablesUpTo(ProfitShapes, MaxOrders)
    /\ \E c \in CostScenarios :
          ad_spends = c[1] /\ other_costs = c[2] /\ fee_rules = c[3]
    /\ Quiet

\* ProfitCalculator.calculate_net_profit(db, store_id, start_date, end_date);
\* a behaviour of SpecQuery is one request against the tables
CallNetProfit(store_id, start_date, end_date) ==
    /\ call = NoCall
    /\ call' = [NoCall EXCEPT !.op = "calculate_net_profit",
                               !.store = store_id, !.start = start_date,
                               !.end = end_date]
    /\ result' = calculate_net_profit(store_id, start_date, end_date)
    /\ codes' = NoCodes
    /\ UNCHANGED <<orders, ad_spends, other_costs, fee_rules, rows, tasks,
                   started, last_commit, margins, ltv, analytics, pnl, ENCRYPTION_KEY, issued, crypto>>

Limits == {1, 10}

\* resolve_discount_code_analytics(info, store_id, date_range, limit)
CallDiscountCodeAnalytics(store_id, start_date, end_date, limit) ==
    LET r == DiscountCodeMap(orders, store_id, start_date, end_date)
    IN  /\ call = NoCall
        /\ call' = [NoCall EXCEPT !.op = "discount_code_analytics",
                                   !.store = store_id, !.start = start_date,
                                   !.end = end_date, !.limit = limit]
        /\ \E K \in SUBSET DOMAIN r.map :
              /\ IsTopSlice(r.map, K, limit)
              /\ codes' = [exc |-> r.exc, map |-> [c \in K |-> r.map[c]]]
        /\ result' = Raised("none")
        /\ UNCHANGED <<orders, ad_spends, other_costs, fee_rules, rows, tasks,
                   started, last_commit, margins, ltv, analytics, pnl, ENCRYPTION_KEY, issued, crypto>>

\* resolve_profit_metrics(info, store_id, date_range) and the margin fields
\* of the ProfitMetrics it returns (resolve_net_profit_analytics and
\* NetProfitMetrics are the same code)
ResolveProfitMetrics(store_id, start_date, end_date) ==
    LET profit_data ==
            calculate_net_profit(store_id, DayStart(start_date), DayEnd(end_date))
    IN  /\ call = NoCall
        /\ call' = [NoCall EXCEPT !.op = "profit_metrics", !.store = store_id,
                                   !.start = start_date, !.end = end_date]
        /\ result' = profit_data
        /\ margins' =
              IF profit_data.exc # "none" THEN NoMargins
              ELSE [profit_margin |->
                        Margin(profit_data.net_profit, profit_data.net_revenue),
                    gross_margin |->
                        Margin(profit_data.gross_profit, profit_data.net_revenue)]
        /\ codes' = NoCodes
        /\ UNCHANGED <<orders, ad_spends, other_costs, fee_rules, rows, tasks,
                       started, last_commit, ltv, analytics, pnl, ENCRYPTION_KEY, issued, crypto>>

NextQuery ==
    \/ \E s \in StoreIds, t1 \in Times, t2 \in Times :
          t1 <= t2 /\ CallNetProfit(s, t1, t2)
    \/ \E s \in StoreIds, d1 \in Days, d2 \in Days :
          d1 <= d2 /\ ResolveProfitMetrics(s, d1, d2)
    \/ \E s \in StoreIds, d1 \in Days, d2 \in Days, l \in Limits :
          d1 <= d2 /\ CallDiscountCodeAnalytics(s, d1, d2, l)

SpecQuery == InitQuery /\ [][NextQuery]_vars

\* resolve_profit_and_loss_report(info, store_id, date_range)
ResolvePnlReport(store_id, start_date, end_date) ==
    LET profit_data ==
            calculate_net_profit(store_id, DayStart(start_date), DayEnd(end_date))
    IN  /\ call = NoCall
        /\ call' = [NoCall EXCEPT !.op = "profit_and_loss_report",
                                   !.store = store_id, !.start = start_date,
                                   !.end = end_date]
        /\ result' = profit_data
        /\ pnl' = PnlReport(profit_data)
        /\ UNCHANGED <<orders, ad_spends, other_costs, fee_rules, rows, tasks,
                       started, last_commit, codes, margins, ltv, analytics,
                       ENCRYPTION_KEY, issued, crypto>>

\* the two reports of the net-profit queries, one request against the tables
NextPnl ==
    \/ \E s \in StoreIds, d1 \in Days, d2 \in Days :
          d1 <= d2 /\ ResolvePnlReport(s, d1, d2)
    \/ \E s \in StoreIds, d1 \in Days, d2 \in Days :
          d1 <= d2 /\ ResolveProfitMetrics(s, d1, d2)

SpecPnl == InitQuery /\ [][NextPnl]_vars

----------------------------------------------------------------------------
(* The callers of encrypt_token and decrypt_token *)

MaxIssued == 2

\* tokens a caller can pass: None, "", "a", "a\u00e9" and a str holding a
\* lone surrogate
Tokens ==
    {None, PyStr(<<>>), PyStr(<<97>>), PyStr(<<97, 233>>), PyStr(<<55296>>)}

\* "invalid_token"
InvalidText ==
    PyStr(<<105, 110, 118, 97, 108, 105, 100, 95, 116, 111, 107, 101, 110>>)

\* "d2VsbA==": the base64 text of "well", and no Fernet token
Base64Text ==
    PyStr(<<100, 50, 86, 115, 98, 65, 61, 61>>)

\* a ciphertext whose first character was overwritten by "A"
Tampered(c) == PyStr(<<65>> \o Tail(c.chars))

\* what a caller can pass to decrypt_token: nothing, what encrypt_token
\* returned, and strings that no encrypt_token returned
Ciphertexts ==
    {None, PyStr(<<>>), InvalidText, Base64Text, PyStr(<<55296>>)}
    \cup {i.ciphertext : i \in issued}
    \cup {Tampered(i.ciphertext) : i \in issued}

InitTokens ==
    /\ orders = {}
    /\ ad_spends = {}
    /\ other_costs = {}
    /\ fee_rules = {}
    /\ Quiet

CallEncryptToken(token, iv) ==
    LET r == encrypt_token(token, ENCRYPTION_KEY, iv)
    IN  /\ Cardinality(issued) < MaxIssued
        /\ crypto' = [op |-> "encrypt_token", arg |-> token,
                      key |-> ENCRYPTION_KEY, exc |-> r.exc, ret |-> r.ret]
        /\ issued' =
              IF r.exc = "none" /\ ~NotValue(token)
              THEN issued \cup {[ciphertext |-> r.ret, token |-> token,
                                 key |-> ENCRYPTION_KEY]}
              ELSE issued
        /\ UNCHANGED <<orders, ad_spends, other_costs, fee_rules, rows, tasks,
                       started, last_commit, call, result, codes, margins, ltv,
                       analytics, pnl, ENCRYPTION_KEY>>

CallDecryptToken(encrypted_token) ==
    LET r == decrypt_token(encrypted_token, ENCRYPTION_KEY)
    IN  /\ crypto' = [op |-> "decrypt_token", arg |-> encrypted_token,
                      key |-> ENCRYPTION_KEY, exc |-> r.exc, ret |-> r.ret]
        /\ UNCHANGED <<orders, ad_spends, other_costs, fee_rules, rows, tasks,
                       started, last_commit, call, result, codes, margins, ltv,
                       analytics, pnl, ENCRYPTION_KEY, issued>>

\* the deployment sets another ENCRYPTION_KEY
RotateKey(key) ==
    /\ key # ENCRYPTION_KEY
    /\ ENCRYPTION_KEY' = key
    /\ UNCHANGED <<orders, ad_spends, other_costs, fee_rules, rows, tasks,
                   started, last_commit, call, result, codes, margins, ltv,
                   analytics, pnl, issued, crypto>>

NextTokens ==
    \/ \E t \in Tokens, iv \in IVs : CallEncryptToken(t, iv)
    \/ \E c \in Ciphertexts : CallDecryptToken(c)
    \/ \E k \in Keys : RotateKey(k)

SpecTokens == InitTokens /\ [][NextTokens]_vars

----------------------------------------------------------------------------
(* The customer lifetime value request, over tables of customers' orders *)

\* identifiers a caller can send: the UUIDs and a string that is none
BadId == "not-a-uuid"

LtvShapes ==
    {OfCustomer(Order(0, "s1", 100 * Unit, t, t, FALSE, NoDiscounts, NULL, <<>>),
                c) :
        c \in CustomerIds, t \in {DayStart(0), DayEnd(0), DayStart(MaxDay)}}
    \cup
    {OfCustomer(Order(0, "s1", 100 * Unit, NULL, 0, FALSE, NoDiscounts, NULL,
                      <<>>), "c1"),
     OfCustomer(Order(0, "s1", 50 * Unit + Cent, DayStart(0), 0, FALSE,
                      DiscountList(<<AmountEntry("SAVE5", Num(5))>>), 4 * Unit,
                      <<LineItem(2, 3 * Unit)>>), "c1"),
     Order(0, "s1", 100 * Unit, DayStart(0), 0, FALSE, NoDiscounts, NULL, <<>>),
     OfCustomer(Order(0, "s2", 100 * Unit, DayStart(0), 0, FALSE, NoDiscounts,
                      NULL, <<>>), "c1")}

InitLtv ==
    /\ orders \in TablesUpTo(LtvShapes, MaxOrders)
    /\ \E c \in CostScenarios :
          ad_spends = c[1] /\ other_costs = c[2] /\ fee_rules = c[3]
    /\ Quiet

\* resolve_customer_ltv(info, customer_id, store_id)
CallCustomerLtv(customer_id, store_id) ==
    /\ call = NoCall
    /\ call' = [NoCall EXCEPT !.op = "customer_ltv", !.store = store_id,
                               !.customer = customer_id]
    /\ ltv' = CustomerLtv(orders, ad_spends, other_costs, customer_id, store_id)
    /\ UNCHANGED <<orders, ad_spends, other_costs, fee_rules, rows, tasks,
                   started, last_commit, result, codes, margins, analytics, pnl, ENCRYPTION_KEY, issued, crypto>>

NextLtv ==
    \E c \in CustomerIds \cup {BadId}, s \in StoreIds \cup {BadId} :
        CallCustomerLtv(c, s)

SpecLtv == InitLtv /\ [][NextLtv]_vars

----------------------------------------------------------------------------
(* DailySalesAnalyticsService: the daily rollup *)

\* an orders query without the cancelled_at filter
DayOrdersWithCancelled(O, store, target_date) ==
    {o \in O : /\ o.store = store
               /\ o.platform_created_at >= DayStart(target_date)
               /\ o.platform_created_at <= DayEnd(target_date)}

\* the orders query of process_daily_analytics
DayOrders(O, store, target_date) ==
    {o \in O : /\ o.store = store
               /\ o.platform_created_at >= DayStart(target_date)
               /\ o.platform_created_at <= DayEnd(target_date)
               /\ ~o.cancelled}

\* an average whose guard is off by one
AverageOrderValueAboveOne(total_sales, total_orders) ==
    IF total_orders > 1
    THEN ((2 * total_sales + total_orders * Cent)
             \div (2 * total_orders * Cent)) * Cent
    ELSE 0

\* Decimal(total_sales) / Decimal(total_orders) behind the guard; the quotient
\* is held as what the Numeric(10, 2) column keeps of it
AverageOrderValue(total_sales, total_orders) ==
    IF total_orders > 0
    THEN ((2 * total_sales + total_orders * Cent)
             \div (2 * total_orders * Cent)) * Cent
    ELSE 0

Row(id, store, date, total_sales, total_orders, average_order_value, profit) ==
    [id |-> id, store |-> store, date |-> date,
     total_sales |-> Quantize(total_sales), total_orders |-> total_orders,
     average_order_value |-> Quantize(average_order_value),
     profit |-> Quantize(profit)]

RowsOf(R, store, date) == {r \in R : r.store = store /\ r.date = date}

\* a worker that is not inside a call (while there are calls left to make;
\* the workers being alike, "w1" is the one that makes the first call)
Free(w) ==
    /\ tasks[w].pc \in {"idle", "done", "failed"}
    /\ started < MaxCalls
    /\ w = "w1" \/ started > 0

Fail(t, e) == [t EXCEPT !.pc = "failed", !.exc = e]

\* process_daily_analytics(db, store_id, target_date), called on its own
CallDaily(w, store_id, target_date) ==
    /\ Free(w)
    /\ tasks' = [tasks EXCEPT ![w] =
          IF IsUUID(store_id)
          THEN [IdleTask EXCEPT !.pc = "lookup", !.store = store_id,
                                !.date = target_date]
          ELSE Fail([IdleTask EXCEPT !.store = store_id,
                                     !.date = target_date], "ValueError")]
    /\ started' = started + 1
    /\ last_commit' = IF last_commit = w THEN "none" ELSE last_commit
    /\ UNCHANGED <<orders, ad_spends, other_costs, fee_rules, rows, call, result, codes, margins, ltv, analytics, pnl, ENCRYPTION_KEY, issued, crypto>>

\* the existence lookup: scalar_one_or_none() raises on more than one row
Lookup(w) ==
    LET t == tasks[w]
        found == RowsOf(rows, t.store, t.date)
    IN  /\ t.pc = "lookup"
        /\ tasks' = [tasks EXCEPT ![w] =
              IF Cardinality(found) > 1 THEN Fail(t, "MultipleResultsFound")
              ELSE IF found = {} THEN [t EXCEPT !.pc = "orders", !.existing = 0]
              ELSE [t EXCEPT !.pc = "orders",
                             !.existing = (CHOOSE r \in found : TRUE).id]]
        /\ UNCHANGED <<orders, ad_spends, other_costs, fee_rules, rows, started,
                       last_commit, call, result, codes, margins, ltv, analytics, pnl, ENCRYPTION_KEY, issued, crypto>>

\* the orders query and the order metrics of the day
FetchOrders(w) ==
    LET t == tasks[w]
        day == DayOrders(orders, t.store, t.date)
        total_sales == Sum([o \in day |-> o.total_price])
        total_orders == Cardinality(day)
    IN  /\ t.pc = "orders"
        /\ tasks' = [tasks EXCEPT ![w] =
              [t EXCEPT !.pc = "profit",
                        !.total_sales = total_sales,
                        !.total_orders = total_orders,
                        !.average_order_value =
                            AverageOrderValue(total_sales, total_orders)]]
        /\ UNCHANGED <<orders, ad_spends, other_costs, fee_rules, rows, started,
                       last_commit, call, result, codes, margins, ltv, analytics, pnl, ENCRYPTION_KEY, issued, crypto>>

\* profit_data = await ProfitCalculator.calculate_net_profit(...)
CalcProfit(w) ==
    LET t == tasks[w]
        profit_data ==
            calculate_net_profit(t.store, DayStart(t.date), DayEnd(t.date))
    IN  /\ t.pc = "profit"
        /\ tasks' = [tasks EXCEPT ![w] =
              IF profit_data.exc # "none" THEN Fail(t, profit_data.exc)
              ELSE [t EXCEPT !.pc = "commit",
                             !.profit = profit_data.net_profit]]
        /\ UNCHANGED <<orders, ad_spends, other_costs, fee_rules, rows, started,
                       last_commit, call, result, codes, margins, ltv, analytics, pnl, ENCRYPTION_KEY, issued, crypto>>

\* where the call returns to: the driver's loop, or the caller
Returned(t) ==
    [t EXCEPT !.pc = IF t.driver /\ t.todo # {} THEN "next" ELSE "done"]

\* a write that inserts whether or not the lookup found a row
WrittenByInsertOnly(R, t) ==
    R \cup {Row(Cardinality(RowsOf(R, t.store, t.date)) + 1,
                t.store, t.date, t.total_sales,
                t.total_orders, t.average_order_value, t.profit)}

\* the rows after the update of the row looked up, or the insert of a new
\* one; a row's id (uuid4) is modelled by its number among the rows of its
\* store and date
Written(R, t) ==
    IF t.existing # 0
    THEN {IF r.id = t.existing /\ r.store = t.store /\ r.date = t.date
          THEN Row(r.id, r.store, r.date, t.total_sales, t.total_orders,
                   t.average_order_value, t.profit)
          ELSE r : r \in R}
    ELSE R \cup {Row(Cardinality(RowsOf(R, t.store, t.date)) + 1,
                     t.store, t.date, t.total_sales,
                     t.total_orders, t.average_order_value, t.profit)}

\* await db.commit() succeeds
Commit(w) ==
    LET t == tasks[w]
    IN  /\ t.pc = "commit"
        /\ rows' = Written(rows, t)
        /\ tasks' = [tasks EXCEPT ![w] = Returned(t)]
        /\ last_commit' = w
        /\ UNCHANGED <<orders, ad_spends, other_costs, fee_rules, started, call, result,
                       codes, margins, ltv, analytics, pnl, ENCRYPTION_KEY, issued, crypto>>

\* await db.commit() raises: the storage is unreachable, nothing is written
CommitFails(w) ==
    LET t == tasks[w]
    IN  /\ t.pc = "commit"
        /\ tasks' = [tasks EXCEPT ![w] = Fail(t, "StorageFailure")]
        /\ UNCHANGED <<orders, ad_spends, other_costs, fee_rules, rows, started,
                       last_commit, call, result, codes, margins, ltv, analytics, pnl, ENCRYPTION_KEY, issued, crypto>>

\* process_all_store_analytics(store_id): the dates of the store's orders
\* that are not cancelled
StartDriver(w, store_id) ==
    LET dates == {DateOf(o.platform_created_at) :
                    o \in {x \in orders : x.store = store_id /\ ~x.cancelled}}
    IN  /\ Free(w)
        /\ tasks' = [tasks EXCEPT ![w] =
              IF ~IsUUID(store_id)
              THEN Fail([IdleTask EXCEPT !.store = store_id, !.driver = TRUE],
                        "ValueError")
              ELSE [IdleTask EXCEPT !.pc = IF dates = {} THEN "done" ELSE "next",
                                    !.driver = TRUE, !.store = store_id,
                                    !.todo = dates]]
        /\ started' = started + 1
        /\ last_commit' = IF last_commit = w THEN "none" ELSE last_commit
        /\ UNCHANGED <<orders, ad_spends, other_costs, fee_rules, rows, call, result, codes, margins, ltv, analytics, pnl, ENCRYPTION_KEY, issued, crypto>>

\* for date_key in orders_by_date.keys(): the next date, in the order the
\* query gave the rows
NextDate(w) ==
    LET t == tasks[w]
    IN  /\ t.pc = "next"
        /\ \E d \in t.todo :
              tasks' = [tasks EXCEPT ![w] =
                  [t EXCEPT !.pc = "lookup", !.date = d, !.todo = @ \ {d},
                            !.visits[d] = @ + 1,
                            !.existing = 0, !.total_sales = 0,
                            !.total_orders = 0, !.average_order_value = 0,
                            !.profit = 0]]
        /\ UNCHANGED <<orders, ad_spends, other_costs, fee_rules, rows, started,
                       last_commit, call, result, codes, margins, ltv, analytics, pnl, ENCRYPTION_KEY, issued, crypto>>

\* the sync of an order that the platform reports cancelled
CancelOrder(id) ==
    /\ \E o \in orders : o.id = id /\ ~o.cancelled
    /\ orders' = {IF o.id = id THEN [o EXCEPT !.cancelled = TRUE] ELSE o :
                    o \in orders}
    /\ UNCHANGED <<ad_spends, other_costs, fee_rules, rows, tasks, started, last_commit,
                   call, result, codes, margins, ltv, analytics, pnl, ENCRYPTION_KEY, issued, crypto>>

----------------------------------------------------------------------------
(* The rollup specification: workers run the rollup entry points against   *)
(* tables of a few orders while the sync cancels orders                    *)

RollupShapes ==
    <<Order(0, "s1", 100 * Unit, DayStart(0), DayStart(0), FALSE,
            NoDiscounts, NULL, <<>>),
      Order(0, "s1", 50 * Unit, DayEnd(0), DayEnd(0), TRUE,
            NoDiscounts, NULL, <<>>),
      Order(0, "s1", 50 * Unit, DayStart(0), DayStart(MaxDay), FALSE,
            NoDiscounts, NULL, <<>>),
      Order(0, "s1", 50 * Unit + Cent, NULL, DayEnd(MaxDay), FALSE,
            NoDiscounts, NULL, <<>>),
      Order(0, "s2", 100 * Unit, DayStart(0), DayStart(0), FALSE,
            NoDiscounts, NULL, <<>>)>>

\* the store ids the rollup entry points are called with
RollupStores == {"s1"}

Init ==
    /\ orders \in SortedTablesUpTo(RollupShapes, MaxOrders)
    /\ ad_spends = {AdSpend("s1", 0, 10 * Unit)}
    /\ other_costs = {OtherCost("s1", "one_time", 5 * Unit, 0, NULL)}
    /\ fee_rules = {TransactionFeeRule("s1", 50, 1 * Unit)}
    /\ Quiet

Next ==
    \/ \E w \in Workers, s \in RollupStores, d \in Days : CallDaily(w, s, d)
    \/ \E w \in Workers, s \in RollupStores : StartDriver(w, s)
    \/ \E w \in Workers :
          \/ NextDate(w)
          \/ Lookup(w)
          \/ FetchOrders(w)
          \/ CalcProfit(w)
          \/ Commit(w)
          \/ CommitFails(w)
    \/ \E id \in 1..MaxOrders : CancelOrder(id)

Spec == Init /\ [][Next]_vars

\* one worker making its calls one after the other, the tables unchanged
NextSeq ==
    \/ \E s \in RollupStores, d \in Days : CallDaily("w1", s, d)
    \/ \E s \in RollupStores : StartDriver("w1", s)
    \/ NextDate("w1")
    \/ Lookup("w1")
    \/ FetchOrders("w1")
    \/ CalcProfit("w1")
    \/ Commit("w1")
    \/ CommitFails("w1")

SpecSeq == Init /\ [][NextSeq]_vars

\* get_daily_analytics(db, store_id, start_date, end_date): the rows of the
\* store within the dates
GetDailyAnalytics(R, store_id, start_date, end_date) ==
    IF ~IsUUID(store_id) THEN [exc |-> "ValueError", rows |-> {}]
    ELSE [exc |-> "none",
          rows |-> {r \in R : /\ r.store = store_id
                              /\ r.date >= start_date
                              /\ r.date <= end_date}]

CallGetDaily(store_id, start_date, end_date) ==
    /\ call = NoCall
    /\ call' = [NoCall EXCEPT !.op = "get_daily_analytics", !.store = store_id,
                               !.start = start_date, !.end = end_date]
    /\ analytics' = GetDailyAnalytics(rows, store_id, start_date, end_date)
    /\ UNCHANGED <<orders, ad_spends, other_costs, fee_rules, rows, tasks,
                   started, last_commit, result, codes, margins, ltv, pnl,
                   ENCRYPTION_KEY, issued, crypto>>

\* the store identifiers a caller sends to the entry points
CallerStores == RollupStores \cup {BadId}

\* one caller of the three entry points, with any store identifier
NextCalls ==
    \/ \E s \in CallerStores, d \in Days : CallDaily("w1", s, d)
    \/ Lookup("w1")
    \/ FetchOrders("w1")
    \/ CalcProfit("w1")
    \/ Commit("w1")
    \/ CommitFails("w1")
    \/ \E s \in CallerStores, t1 \in Times, t2 \in Times :
          t1 <= t2 /\ CallNetProfit(s, t1, t2)
    \/ \E s \in CallerStores, d1 \in Days, d2 \in Days :
          d1 <= d2 /\ CallGetDaily(s, d1, d2)

SpecCalls == Init /\ [][NextCalls]_vars

----------------------------------------------------------------------------
(* Properties *)

NetProfitReturned == call.op = "calculate_net_profit" /\ result.exc = "none"

\* C1: every result of calculate_net_profit satisfies the three waterfall
\* equations exactly: net_revenue = gross_revenue - total_refunds -
\* total_discounts, gross_profit = net_revenue - total_cogs, net_profit =
\* gross_profit - shipping - fees - ad spend - other costs.
C1_WaterfallExact ==
    NetProfitReturned =>
        /\ result.net_revenue =
              result.gross_revenue - result.total_refunds - result.total_discounts
        /\ result.gross_profit = result.net_revenue - result.total_cogs
        /\ result.net_profit =
              result.gross_profit - result.total_shipping_cost
              - result.total_transaction_fees - result.total_ad_spend
              - result.total_other_costs

\* a result in which every deduction of the waterfall is at work
C1_Witness ==
    /\ NetProfitReturned
    /\ result.gross_revenue > 0
    /\ result.total_discounts > 0
    /\ result.total_cogs > 0
    /\ result.total_shipping_cost > 0
    /\ result.total_transaction_fees > 0
    /\ result.total_ad_spend > 0
    /\ result.total_other_costs > 0

\* the worker's call steps from position `from` to a position in `to`
Steps(w, from, to) == tasks[w].pc = from /\ tasks'[w].pc \in to

\* C2: a commit of process_daily_analytics leaves exactly one row for its
\* (store, date), and when the lookup had found the row of an earlier call
\* (the orders and costs unchanged since) the stored rows are what they were.
C2_SecondCallIdempotent ==
    [][\A w \in Workers :
          Steps(w, "commit", {"done", "next"}) =>
              /\ Cardinality(RowsOf(rows', tasks[w].store, tasks[w].date)) = 1
              /\ tasks[w].existing # 0 => rows' = rows]_vars

\* the second call for a (store, date) has committed
C2_Witness ==
    /\ tasks["w1"].pc = "done"
    /\ tasks["w1"].existing # 0
    /\ started = 2
    /\ \E r \in rows : r.total_orders > 0 /\ r.store = tasks["w1"].store
                       /\ r.date = tasks["w1"].date

\* C3: there is at most one DailySalesAnalytics row per (store_id, date).
C3_UniquePerStoreDate ==
    \A r1 \in rows, r2 \in rows :
        (r1.store = r2.store /\ r1.date = r2.date) => r1 = r2

\* the row a worker's locals make
RowOfLocals(t, id) ==
    Row(id, t.store, t.date, t.total_sales, t.total_orders,
        t.average_order_value, t.profit)

\* C4: when two process_daily_analytics runs for the same (store, date) have
\* both completed, that (store, date) has a single row, holding the four
\* metric values of the run that committed last.
C4_LastWriteWins ==
    \A w \in Workers, v \in Workers :
        ( /\ w # v
          /\ tasks[w].pc = "done" /\ ~tasks[w].driver
          /\ tasks[v].pc = "done" /\ ~tasks[v].driver
          /\ tasks[w].store = tasks[v].store /\ tasks[w].date = tasks[v].date
          /\ last_commit = w )
        => \E r \in rows :
              /\ RowsOf(rows, tasks[w].store, tasks[w].date) = {r}
              /\ r = RowOfLocals(tasks[w], r.id)

\* C5: a process_all_store_analytics run in which a day has failed still
\* attempts every remaining day: it does not end with dates left over.
C5_LaterDaysAttempted ==
    \A w \in Workers :
        (tasks[w].driver /\ tasks[w].pc = "failed") => tasks[w].todo = {}

\* the orders of a store created on a date and not cancelled
LiveOrdersOn(store, date) ==
    {o \in orders : /\ o.store = store
                    /\ DateOf(o.platform_created_at) = date
                    /\ ~o.cancelled}

\* C6: the total_sales and total_orders that process_daily_analytics computes
\* and writes count the day's orders that are not cancelled, and no order
\* with cancelled_at set.
C6_CancelledExcluded ==
    [][\A w \in Workers :
          /\ Steps(w, "orders", {"profit"}) =>
                LET counted == LiveOrdersOn(tasks[w].store, tasks[w].date)
                IN  /\ tasks'[w].total_sales =
                          Sum([o \in counted |-> o.total_price])
                    /\ tasks'[w].total_orders = Cardinality(counted)
          /\ Steps(w, "commit", {"done", "next"}) =>
                \E r \in RowsOf(rows', tasks[w].store, tasks[w].date) :
                    /\ r.total_sales = tasks[w].total_sales
                    /\ r.total_orders = tasks[w].total_orders]_vars

\* a stored row of a day on which a cancelled order lies beside a live one:
\* the row counts the live one alone
C6_Witness ==
    \E r \in rows, o \in orders, c \in orders :
        /\ o.store = r.store /\ DateOf(o.platform_created_at) = r.date
        /\ c.store = r.store /\ DateOf(c.platform_created_at) = r.date
        /\ c.cancelled /\ ~o.cancelled
        /\ r.total_orders = 1
        /\ r.total_sales = o.total_price

\* C7: the profit of a daily rollup is the net profit over the day's orders
\* that are not cancelled.
C7_ProfitExcludesCancelled ==
    [][\A w \in Workers :
          Steps(w, "profit", {"commit"}) =>
              tasks'[w].profit =
                  CalculateNetProfit({o \in orders : ~o.cancelled}, ad_spends,
                                     other_costs, tasks[w].store,
                                     DayStart(tasks[w].date),
                                     DayEnd(tasks[w].date)).net_profit]_vars

OrdersOfCall ==
    {o \in orders : /\ o.store = call.store
                    /\ o.processed_at # NULL
                    /\ call.start <= o.processed_at
                    /\ o.processed_at <= call.end}

\* C9: over a range without orders calculate_net_profit returns zero for
\* gross_revenue, total_discounts, total_refunds, total_cogs,
\* total_shipping_cost and total_transaction_fees, the ad spend and other
\* costs of the range, and net_profit = -(total_ad_spend + total_other_costs).
C9_NoOrdersAllZero ==
    (call.op = "calculate_net_profit" /\ OrdersOfCall = {}) =>
        /\ result.exc = "none"
        /\ result.gross_revenue = 0
        /\ result.total_discounts = 0
        /\ result.total_refunds = 0
        /\ result.total_cogs = 0
        /\ result.total_shipping_cost = 0
        /\ result.total_transaction_fees = 0
        /\ result.total_ad_spend =
              _calculate_ad_spend(ad_spends, call.store, call.start, call.end)
        /\ result.total_other_costs =
              _calculate_other_costs(other_costs, call.store, call.start, call.end)
        /\ result.net_profit =
              0 - (result.total_ad_spend + result.total_other_costs)

\* a range without orders of the store, in a table that has orders, with ad
\* spend and other costs
C9_Witness ==
    /\ call.op = "calculate_net_profit"
    /\ OrdersOfCall = {}
    /\ \E o \in orders : o.store = call.store
    /\ result.total_ad_spend > 0
    /\ result.total_other_costs > 0
    /\ result.net_profit < 0

\* C10: whatever the discount entries, calculate_net_profit and
\* discount_code_analytics return a result: an entry that cannot be parsed
\* counts as 0 and raises nothing.
C10_UnparseableNeverFails ==
    /\ call.op = "calculate_net_profit" => result.exc = "none"
    /\ call.op = "discount_code_analytics" => codes.exc = "none"


\* the entries of an order's discount_applications list
EntriesOf(o) ==
    IF o.discount_applications.json = "list"
    THEN o.discount_applications.entries ELSE <<>>

\* the discount entries of a set of orders, each as <<order, index>>
EntryRefs(S) == UNION {{<<o, i>> : i \in 1..Len(EntriesOf(o))} : o \in S}

EntryOf(ref) == EntriesOf(ref[1])[ref[2]]

\* the sum of total_discount_amount over the codes of a map
SumOfCodes(m) == Sum([c \in DOMAIN m |-> m[c].total_discount_amount])

\* the amounts of the entries that the code pass drops for lacking a code
DroppedAmounts(S) ==
    LET D == {ref \in EntryRefs(S) : CodeOf(EntryOf(ref)).skip}
    IN  Sum([ref \in D |->
                ResolverAmount(EntryOf(ref), ref[1].total_price).val])

\* a calculate_net_profit call over whole days: the range that
\* discount_code_analytics takes as dates
WholeDaysCall ==
    /\ call.op = "calculate_net_profit"
    /\ call.start = DayStart(DateOf(call.start))
    /\ call.end = DayEnd(DateOf(call.end))

\* the code pass over the store and days of the call
CodePassOfCall ==
    DiscountCodeMap(orders, call.store, DateOf(call.start), DateOf(call.end))

\* C11: over the same store, days and orders the two passes give each entry
\* the same amount: whenever one of them returns, so does the other, and
\* total_discounts of calculate_net_profit is the sum of
\* total_discount_amount over all codes plus the amounts of the entries
\* dropped for lacking a code.
C11_PassesAgree ==
    (WholeDaysCall /\ (result.exc = "none" \/ CodePassOfCall.exc = "none")) =>
        /\ result.exc = "none"
        /\ CodePassOfCall.exc = "none"
        /\ result.total_discounts =
              SumOfCodes(CodePassOfCall.map)
              + DroppedAmounts(OrdersInRange(orders, call.store, call.start,
                                             call.end))

\* where both passes return, they do agree on the total
C11_AgreeWhenBothReturn ==
    (WholeDaysCall /\ result.exc = "none" /\ CodePassOfCall.exc = "none") =>
        result.total_discounts =
            SumOfCodes(CodePassOfCall.map)
            + DroppedAmounts(OrdersInRange(orders, call.store, call.start,
                                           call.end))


\* the orders that a discount_code_analytics call's store and days hold
OrdersOfCodeCall ==
    OrdersInRange(orders, call.store, DayStart(call.start), DayEnd(call.end))

\* discount_code_analytics returned every code it found, none cut by limit
CodesReturned ==
    /\ call.op = "discount_code_analytics"
    /\ codes.exc = "none"
    /\ Cardinality(DOMAIN codes.map) < call.limit

\* C12: each entry gets as code its code field when that is non-empty;
\* otherwise, given a title, "MANUAL: <title>" for type manual,
\* "AUTO: <title>" for type automatic and "<TYPE>: <title>" (the type in
\* upper case) for any other type.
C12_CodeAssigned ==
    CodesReturned =>
        \A ref \in EntryRefs(OrdersOfCodeCall) :
            LET e == EntryOf(ref)
            IN  /\ ~Falsy(e.code) => e.code \in DOMAIN codes.map
                /\ (Falsy(e.code) /\ ~Falsy(e.title) /\ ~Falsy(e.type)) =>
                      (CASE e.type = "manual" -> "MANUAL: " \o e.title
                         [] e.type = "automatic" -> "AUTO: " \o e.title
                         [] OTHER -> Upper(e.type) \o ": " \o e.title)
                      \in DOMAIN codes.map

\* codes of all four kinds were returned, "MANUAL: Black Friday" from an
\* entry of type manual with that title and no code
C12_Witness ==
    /\ CodesReturned
    /\ {"MANUAL: Black Friday", "AUTO: Free Ship", "SCRIPT: Bundle", "BOTH"}
          \subseteq DOMAIN codes.map
    /\ \E ref \in EntryRefs(OrdersOfCodeCall) :
          /\ EntryOf(ref).type = "manual"
          /\ EntryOf(ref).title = "Black Friday"
          /\ Falsy(EntryOf(ref).code)


\* C13: an entry with neither a non-empty code nor a non-empty title is
\* dropped whatever its type: every code returned comes from an entry that
\* has a code or a title, and counts only such entries.
C13_NoCodeNoTitleDropped ==
    CodesReturned =>
        \A c \in DOMAIN codes.map :
            codes.map[c].usage_count =
                Cardinality({ref \in EntryRefs(OrdersOfCodeCall) :
                                /\ ~(Falsy(EntryOf(ref).code)
                                     /\ Falsy(EntryOf(ref).title))
                                /\ CodeOf(EntryOf(ref)).code = c})


\* a field's number, 0 for a value that is not a number
NumberOf(v) == IF v.t = "num" THEN v.n ELSE 0

\* the amount of an entry by the first applicable field of amount, value,
\* percentage, value_type = "percentage" with value
AmountByPrecedence(e, total_price) ==
    IF Has(e.amount) THEN NumberOf(e.amount) * Unit
    ELSE IF Has(e.value) THEN NumberOf(e.value) * Unit
    ELSE IF Has(e.percentage)
         THEN (total_price * NumberOf(e.percentage)) \div 100
    ELSE IF e.value_type = "percentage" /\ Has(e.value)
         THEN (total_price * NumberOf(e.value)) \div 100
    ELSE 0

\* C14: in both passes the amount of an entry is that of the first
\* applicable field in the order amount (literal), value (literal),
\* percentage (total_price * percentage / 100), value_type = "percentage"
\* with value: total_discounts is the sum of these amounts over the entries
\* of the orders in range, and a code's total_discount_amount their sum over
\* the code's entries.
C14_AmountByPrecedence ==
    /\ NetProfitReturned =>
          result.total_discounts =
              Sum([ref \in EntryRefs(OrdersOfCall) |->
                      AmountByPrecedence(EntryOf(ref), ref[1].total_price)])
    /\ CodesReturned =>
          \A c \in DOMAIN codes.map :
              codes.map[c].total_discount_amount =
                  Sum([ref \in {x \in EntryRefs(OrdersOfCodeCall) :
                                   /\ ~CodeOf(EntryOf(x)).skip
                                   /\ CodeOf(EntryOf(x)).code = c} |->
                          AmountByPrecedence(EntryOf(ref), ref[1].total_price)])

\* the one order in range has total_price 200.00 and the single entry
\* {percentage: 10}: total_discounts is exactly 20.00
C14_Witness ==
    /\ NetProfitReturned
    /\ \E o \in orders :
          /\ OrdersOfCall = {o}
          /\ o.total_price = 200 * Unit
          /\ EntriesOf(o) = <<PercentageEntry(ABSENT, Num(10))>>
    /\ result.total_discounts = 20 * Unit


\* the entries of the call's orders that get code c
EntriesOfCode(c) ==
    {ref \in EntryRefs(OrdersOfCodeCall) :
        ~CodeOf(EntryOf(ref)).skip /\ CodeOf(EntryOf(ref)).code = c}

\* the entries of the call's orders that get a code
CodedEntries ==
    {ref \in EntryRefs(OrdersOfCodeCall) : ~CodeOf(EntryOf(ref)).skip}

\* C15: every entry that gets a code adds 1 to the code's usage_count, its
\* amount to total_discount_amount and the order's whole total_price to
\* total_sales_generated, so that an order with k coded entries adds its
\* total_price k times across the codes.
C15_PerEntryAccumulation ==
    CodesReturned =>
        /\ \A c \in DOMAIN codes.map :
              /\ codes.map[c].usage_count = Cardinality(EntriesOfCode(c))
              /\ codes.map[c].total_discount_amount =
                    Sum([ref \in EntriesOfCode(c) |->
                            ResolverAmount(EntryOf(ref), ref[1].total_price).val])
              /\ codes.map[c].total_sales_generated =
                    Sum([ref \in EntriesOfCode(c) |-> ref[1].total_price])
        /\ Sum([c \in DOMAIN codes.map |-> codes.map[c].total_sales_generated])
              = Sum([ref \in CodedEntries |-> ref[1].total_price])

\* two orders carry the same code, and one order carries three coded entries
C15_Witness ==
    /\ CodesReturned
    /\ \E c \in DOMAIN codes.map :
          /\ codes.map[c].usage_count = 2
          /\ codes.map[c].total_sales_generated = 400 * Unit
    /\ \E o \in OrdersOfCodeCall :
          Cardinality({ref \in CodedEntries : ref[1] = o}) = 3


\* C16: total_transaction_fees is 0.029 times the sum of total_price of the
\* orders in range plus 0.30 times their number, whatever the
\* TransactionFeeRule records of the store.
C16_FlatFees ==
    NetProfitReturned =>
        1000 * result.total_transaction_fees =
            29 * Sum([o \in OrdersOfCall |-> o.total_price])
            + 1000 * (30 * Cent) * Cardinality(OrdersOfCall)

\* fees of two orders of a store that has a fee rule of its own
C16_Witness ==
    /\ NetProfitReturned
    /\ Cardinality(OrdersOfCall) = 2
    /\ \E r \in fee_rules :
          r.store = call.store /\ r.percentage # 29 /\ r.fixed_fee # 30 * Cent
    /\ result.total_transaction_fees > 0


\* the cost records that count for the call: of the store; one_time with
\* start_date within the dates of the range; any other frequency with
\* start_date not after the range and end_date absent or not before it
CostsOfCall ==
    {c \in other_costs :
        /\ c.store = call.store
        /\ \/ /\ c.frequency = "one_time"
              /\ DateOf(call.start) <= c.start_date
              /\ c.start_date <= DateOf(call.end)
           \/ /\ c.frequency # "one_time"
              /\ c.start_date <= DateOf(call.end)
              /\ c.end_date = NULL \/ c.end_date >= DateOf(call.start)}

\* C17: total_other_costs is the sum of the full amounts of the one_time
\* costs that start within the range and of the other costs whose interval
\* overlaps it; no other record and no record of another store counts.
C17_OtherCosts ==
    NetProfitReturned =>
        result.total_other_costs = Sum([c \in CostsOfCall |-> c.amount])

\* a range of the last day alone: a one_time and two recurring costs count,
\* a recurring cost that ended before and another store's cost do not
C17_Witness ==
    /\ NetProfitReturned
    /\ DateOf(call.start) = MaxDay
    /\ \E c \in CostsOfCall : c.frequency = "one_time"
    /\ \E c \in CostsOfCall : c.frequency # "one_time" /\ c.end_date = NULL
    /\ \E c \in other_costs \ CostsOfCall :
          c.store = call.store /\ c.frequency # "one_time" /\ c.end_date # NULL
    /\ \E c \in other_costs : c.store # call.store
    /\ result.total_other_costs = 26 * Unit


\* the orders of the customer of a customer_ltv call
OrdersOfCustomer ==
    {o \in orders : o.store = call.store /\ o.customer = call.customer}

\* the net profit of the calculator over the single instant t
ProfitAt(t) ==
    CalculateNetProfit(orders, ad_spends, other_costs, call.store, t, t).net_profit

\* what C18 says of the metrics returned
LtvAsClaimed ==
    /\ ltv.exc = "none"
    /\ ltv.total_profit =
          Sum([o \in OrdersOfCustomer |-> ProfitAt(o.processed_at)])
    /\ ltv.net_profit_ltv = ltv.total_profit
    /\ ltv.total_revenue = Sum([o \in OrdersOfCustomer |-> o.total_price])
    /\ ltv.total_orders = Cardinality(OrdersOfCustomer)
    /\ ltv.average_order_value.num * ltv.total_orders =
          ltv.total_revenue * ltv.average_order_value.den
    /\ ltv.average_profit_per_order.num * ltv.total_orders =
          ltv.total_profit * ltv.average_profit_per_order.den

\* C18: for a customer with at least one order customer_ltv returns
\* total_profit = the sum over the customer's orders of the net profit of
\* calculate_net_profit(store, start = end = the order's processed_at),
\* net_profit_ltv = total_profit, total_revenue = the sum of total_price, and
\* the averages total_revenue / total_orders and total_profit / total_orders.
C18_LtvPerOrderProfit ==
    (call.op = "customer_ltv" /\ OrdersOfCustomer # {}) => LtvAsClaimed

\* the same for customers whose orders all have a processed_at
C18_LtvOfDatedOrders ==
    (/\ call.op = "customer_ltv"
     /\ OrdersOfCustomer # {}
     /\ \A o \in OrdersOfCustomer : o.processed_at # NULL) => LtvAsClaimed

\* two orders of the customer at the same instant: each call of the
\* calculator covers both
C18_DatedWitness ==
    /\ call.op = "customer_ltv"
    /\ \E o, p \in OrdersOfCustomer :
          o # p /\ o.processed_at = p.processed_at /\ o.processed_at # NULL
    /\ ltv.exc = "none"
    /\ ltv.total_orders = 2
    /\ ltv.total_profit # 0


\* the margins of a profit_metrics request that returned metrics
MetricsReturned == call.op = "profit_metrics" /\ result.exc = "none"

\* margin is part / net_revenue * 100, for amounts in whole cents
IsPercentage(margin, part, net_revenue) ==
    /\ part % Cent = 0
    /\ net_revenue % Cent = 0
    /\ margin.num * (net_revenue \div Cent) = 100 * (part \div Cent) * margin.den

\* C19: profit_margin and gross_margin are exactly 0 when net_revenue is 0,
\* otherwise net_profit / net_revenue * 100 and gross_profit / net_revenue *
\* 100; resolving them never raises.
C19_MarginsGuarded ==
    MetricsReturned =>
        /\ margins.profit_margin.exc = "none"
        /\ margins.gross_margin.exc = "none"
        /\ result.net_revenue = 0 =>
              margins.profit_margin = Whole(0) /\ margins.gross_margin = Whole(0)
        /\ result.net_revenue # 0 =>
              /\ IsPercentage(margins.profit_margin, result.net_profit,
                              result.net_revenue)
              /\ IsPercentage(margins.gross_margin, result.gross_profit,
                              result.net_revenue)

\* metrics of a range without orders: net_revenue is 0 while the costs make
\* net_profit negative
C19_Witness ==
    /\ MetricsReturned
    /\ result.net_revenue = 0
    /\ result.net_profit < 0
    /\ margins.profit_margin = Whole(0)

\* metrics with a revenue, the two margins apart
C19_WitnessWithRevenue ==
    /\ MetricsReturned
    /\ result.net_revenue > 0
    /\ margins.profit_margin # margins.gross_margin
    /\ margins.profit_margin.den > 1


\* C20: calculate_net_profit, process_daily_analytics and get_daily_analytics
\* called with a store identifier that is no UUID fail at once with an error:
\* the call is over in the step that makes it, with the ValueError of the
\* parse, no row is created or modified, and no store takes the place of the
\* identifier.
C20_InvalidStoreRejected ==
    [][/\ (call' # call /\ call'.store = BadId) =>
             /\ rows' = rows
             /\ call'.op = "calculate_net_profit" => result' = Raised("ValueError")
             /\ call'.op = "get_daily_analytics" =>
                   analytics' = [exc |-> "ValueError", rows |-> {}]
       /\ \A w \in Workers :
             (tasks'[w] # tasks[w] /\ tasks'[w].store = BadId) =>
                 /\ rows' = rows
                 /\ tasks[w].pc \in {"idle", "done", "failed"}
                 /\ tasks'[w].pc = "failed"
                 /\ tasks'[w].exc = "ValueError"]_vars

\* process_daily_analytics and then one of the other two were called with
\* the identifier that is no UUID, the table holding a row of an earlier call
C20_Witness ==
    /\ tasks["w1"].store = BadId
    /\ tasks["w1"].pc = "failed"
    /\ call.op \in {"calculate_net_profit", "get_daily_analytics"}
    /\ call.store = BadId
    /\ rows # {}


\* a step that changes the rows is the commit of a run, and leaves the rows
\* of the other (store, date) pairs as they were; `inserted` says whether the
\* run is to add a row or to overwrite one
WritesAsRun(w, inserted) ==
    LET t == tasks[w]
        old == RowsOf(rows, t.store, t.date)
        new == RowsOf(rows', t.store, t.date)
    IN  /\ Steps(w, "commit", {"done", "next"})
        /\ rows' \ new = rows \ old
        /\ IF inserted
           THEN \E r \in new : r \notin old /\ new = old \cup {r}
                                /\ r = RowOfLocals(t, r.id)
           ELSE \E r \in old : new = (old \ {r}) \cup {RowOfLocals(t, r.id)}

\* C21: rows are created and modified only by process_daily_analytics and
\* never deleted: a run inserts a row when none exists for its (store, date),
\* or else overwrites the four metric fields of the existing row, and leaves
\* the rows of every other (store, date) unchanged.
C21_OnlyUpsertWrites ==
    [][rows' # rows =>
          \E w \in Workers :
              WritesAsRun(w, RowsOf(rows, tasks[w].store, tasks[w].date) = {})]_vars

\* the same with the insert decided by what the run's own lookup found
C21_FrameOfWrites ==
    [][rows' # rows =>
          /\ \E w \in Workers : WritesAsRun(w, tasks[w].existing = 0)
          /\ Cardinality(rows') >= Cardinality(rows)]_vars


\* the calendar days from the first to the last day on which the store has
\* an order
RangeOfStore(store) ==
    LET ds == {DateOf(o.platform_created_at) : o \in {x \in orders : x.store = store}}
    IN  {d \in Days : \E a \in ds, b \in ds : a <= d /\ d <= b}

\* C22: a process_all_store_analytics run that has ended has called the day
\* materializer exactly once for each calendar day of the range, the days
\* without (non-cancelled) orders included, and for no other day.
C22_EveryDayOnce ==
    \A w \in Workers :
        (tasks[w].driver /\ tasks[w].pc = "done") =>
            \A d \in Days :
                tasks[w].visits[d] =
                    IF d \in RangeOfStore(tasks[w].store) THEN 1 ELSE 0

\* over the days that have orders which are not cancelled, it does
C22_DaysWithOrdersOnce ==
    \A w \in Workers :
        (tasks[w].driver /\ tasks[w].pc = "done") =>
            \A d \in Days :
                tasks[w].visits[d] =
                    IF LiveOrdersOn(tasks[w].store, d) # {} THEN 1 ELSE 0


\* the row that process_daily_analytics computes for a date from the orders
\* and costs O, A, C
RowFromOrders(O, A, C, id, store, date) ==
    LET day == DayOrders(O, store, date)
        total_sales == Sum([o \in day |-> o.total_price])
        total_orders == Cardinality(day)
    IN  Row(id, store, date, total_sales, total_orders,
            AverageOrderValue(total_sales, total_orders),
            CalculateNetProfit(O, A, C, store, DayStart(date),
                               DayEnd(date)).net_profit)

\* C28: when process_all_store_analytics completes without error, every
\* stored row of the store is what process_daily_analytics computes for its
\* date from the current orders; a row of a date whose orders have all been
\* cancelled since shows total_sales 0 and total_orders 0.
C28_RowsCurrentAfterDriver ==
    [][\A w \in Workers :
          (tasks'[w] # tasks[w] /\ tasks'[w].driver /\ tasks'[w].pc = "done") =>
              \A r \in rows' :
                  r.store = tasks'[w].store =>
                      r = RowFromOrders(orders', ad_spends', other_costs', r.id,
                                        r.store, r.date)]_vars

\* a row stored by an earlier call, every order of its date cancelled since,
\* a process_all_store_analytics run complete after that, and no other run
\* under way
C28_StaleRowLeft ==
    /\ tasks["w1"].driver /\ tasks["w1"].pc = "done"
    /\ tasks["w2"].pc = "idle"
    /\ started = 2
    /\ \E r \in rows :
          /\ r.store = tasks["w1"].store
          /\ r.total_orders > 0
          /\ DayOrders(orders, r.store, r.date) = {}


\* C29: the orders counted in a row's total_sales and total_orders are the
\* orders from which its profit is computed: when a run computes its profit,
\* the orders of its sales query are those of the calculator's query.
C29_SameOrdersInSalesAndProfit ==
    [][\A w \in Workers :
          Steps(w, "profit", {"commit"}) =>
              DayOrders(orders, tasks[w].store, tasks[w].date)
              = OrdersInRange(orders, tasks[w].store, DayStart(tasks[w].date),
                              DayEnd(tasks[w].date))]_vars

\* C30: a process_daily_analytics call never fails in its existence lookup
\* because of the rows that earlier runs for its (store, date) have left.
C30_LookupNeverFails ==
    \A w \in Workers : tasks[w].exc # "MultipleResultsFound"


----------------------------------------------------------------------------
\* net_profit of calculate_net_profit over the single day d of the call's
\* store: the profit that the rollup stores in the day's row
DayNetProfit(d) ==
    calculate_net_profit(call.store, DayStart(d), DayEnd(d))

DaysOfCall == DateOf(call.start)..DateOf(call.end)

\* C25: for a range of several whole days the single-day net profits
\* (calculate_net_profit from the first to the last instant of each day)
\* add up to calculate_net_profit's net_profit for the whole range, whatever
\* the orders, ad spend and other costs.
C25_DaysAddUpToRange ==
    (/\ WholeDaysCall
     /\ Cardinality(DaysOfCall) > 1
     /\ result.exc = "none"
     /\ \A d \in DaysOfCall : DayNetProfit(d).exc = "none")
    => Sum([d \in DaysOfCall |-> DayNetProfit(d).net_profit]) = result.net_profit

\* the same for stores without recurring other costs
C25_DaysAddUpWithoutRecurring ==
    (/\ WholeDaysCall
     /\ Cardinality(DaysOfCall) > 1
     /\ result.exc = "none"
     /\ \A d \in DaysOfCall : DayNetProfit(d).exc = "none"
     /\ \A c \in other_costs :
           c.store = call.store => c.frequency = "one_time")
    => Sum([d \in DaysOfCall |-> DayNetProfit(d).net_profit]) = result.net_profit

----------------------------------------------------------------------------
\* the orders table without the orders that other customers placed in the
\* store of the customer_ltv call
WithoutOtherCustomers ==
    {o \in orders : o.store = call.store => o.customer = call.customer}

\* C27: the customer_ltv result depends only on the customer's own orders
\* and the store's cost records: with the orders of the store's other
\* customers removed, every field of the result is the same.
C27_LtvOfOwnOrdersOnly ==
    call.op = "customer_ltv"
    => ltv = CustomerLtv(WithoutOtherCustomers, ad_spends, other_costs,
                         call.customer, call.store)


----------------------------------------------------------------------------
\* the P&L report of a request that returned one
PnlReturned == call.op = "profit_and_loss_report" /\ pnl.exc = "none"

\* C26: for the same store and date range the Net Profit and Gross Profit
\* percentages of the P&L report are the profit_margin and gross_margin of
\* the net-profit metrics, whatever net_revenue is (positive, zero or
\* negative).
C26_PnlPercentagesAreMargins ==
    PnlReturned =>
        /\ pnl.net_profit.percentage
           = Margin(result.net_profit, result.net_revenue)
        /\ pnl.gross_profit.percentage
           = Margin(result.gross_profit, result.net_revenue)

\* the same for a positive net_revenue only
C26_PnlPercentagesOfPositiveRevenue ==
    (PnlReturned /\ result.net_revenue > 0) =>
        /\ pnl.net_profit.percentage
           = Margin(result.net_profit, result.net_revenue)
        /\ pnl.gross_profit.percentage
           = Margin(result.gross_profit, result.net_revenue)

----------------------------------------------------------------------------
\* C23: for every non-empty token t, decrypt_token(encrypt_token(t)) = t
\* under the key that encrypted it, whichever of the ciphertexts of t
\* encrypt_token returned.
C23_RoundTrip ==
    (crypto.op = "encrypt_token" /\ ~NotValue(crypto.arg)) =>
        /\ crypto.exc = "none"
        /\ decrypt_token(crypto.ret, crypto.key) = Returns(crypto.arg)

\* C23, for the tokens that str.encode() encodes: encrypt_token returns a
\* ciphertext for each, every ciphertext it returned differs from its token
\* and decrypts to it under the key that encrypted it, and decrypt_token
\* called with such a ciphertext under that key returns the token.
C23_RoundTripOfEncodable ==
    /\ (/\ crypto.op = "encrypt_token"
        /\ ~NotValue(crypto.arg)
        /\ str_encode(crypto.arg.chars).exc = "none")
       => /\ crypto.exc = "none"
          /\ decrypt_token(crypto.ret, crypto.key) = Returns(crypto.arg)
    /\ \A i \in issued :
          /\ decrypt_token(i.ciphertext, i.key) = Returns(i.token)
          /\ i.ciphertext # i.token
    /\ \A i \in issued :
          (/\ crypto.op = "decrypt_token"
           /\ crypto.arg = i.ciphertext
           /\ crypto.key = i.key)
          => (crypto.exc = "none" /\ crypto.ret = i.token)

\* one token encrypted twice under the key, the two ciphertexts differ, and
\* decrypt_token has returned the token for one of them
C23_Witness ==
    /\ crypto.op = "decrypt_token"
    /\ crypto.exc = "none"
    /\ crypto.ret = PyStr(<<97, 233>>)
    /\ \E i \in issued, j \in issued :
          /\ i.token = crypto.ret /\ j.token = crypto.ret
          /\ i.key = crypto.key /\ j.key = crypto.key
          /\ i.ciphertext # j.ciphertext
          /\ crypto.arg = i.ciphertext

\* a string is a ciphertext of the key when Fernet decrypts it
ValidCiphertext(c, key) ==
    /\ c # None
    /\ str_encode(c.chars).exc = "none"
    /\ Fernet_decrypt(key, str_encode(c.chars).bytes).exc = "none"

\* C24: encrypt_token returns "" for an empty or None token; decrypt_token
\* returns None, and raises nothing, for "" and for any string that is no
\* valid ciphertext under the current key.
C24_EmptyAndInvalid ==
    /\ (crypto.op = "encrypt_token" /\ NotValue(crypto.arg))
       => (crypto.exc = "none" /\ crypto.ret = PyStr(<<>>))
    /\ (/\ crypto.op = "decrypt_token"
        /\ crypto.arg # None
        /\ ~ValidCiphertext(crypto.arg, crypto.key))
       => (crypto.exc = "none" /\ crypto.ret = None)

\* the same for strings that str.encode() encodes
C24_EmptyAndInvalidEncodable ==
    /\ (crypto.op = "encrypt_token" /\ NotValue(crypto.arg))
       => (crypto.exc = "none" /\ crypto.ret = PyStr(<<>>))
    /\ (/\ crypto.op = "decrypt_token"
        /\ crypto.arg # None
        /\ str_encode(crypto.arg.chars).exc = "none"
        /\ ~ValidCiphertext(crypto.arg, crypto.key))
       => (crypto.exc = "none" /\ crypto.ret = None)

====
